---- MODULE Spec2Model ----
(***************************************************************************)
(* Model of the backend integration layer of the retail chatbot            *)
(* (src/modules/integration.py): the circuit breaker, the per-adapter      *)
(* response cache and the adapter operations built on them, run by         *)
(* coroutines of one event loop that suspend only at the network request,  *)
(* and the BackendIntegrator that routes intents to the adapters and       *)
(* collects their health; beside it, the conversation context store        *)
(* (src/modules/context.py) and the escalation decision of the response    *)
(* generator (src/modules/response.py).                                    *)
(***************************************************************************)
EXTENDS Integers, Sequences, FiniteSets, TLC

VARIABLES
    now,        \* datetime.now(), in seconds
    breaker,    \* service -> CircuitBreaker fields
    cache,      \* service -> BaseService.cache (cache key -> entry)
    inflight,   \* coroutine -> the request it is suspended on (<<>> when idle);
                \* trial: the call found the breaker open and made it half-open,
                \* sent: the network requests this invocation has sent
    ret,        \* what the step just taken gave the caller of an adapter operation
    consec,     \* service -> calls through the breaker that raised since the last that returned
    adapter,    \* the adapter the coroutines of this behaviour call
    nadv,       \* clock advances so far
    use_mock_services,  \* BackendIntegrator.use_mock_services after initialize
    request,    \* coroutine -> the process_request it is suspended in (<<>> when none)
    result,     \* what the step just taken gave the caller of the BackendIntegrator
    health,     \* the get_health_status in progress (<<>> when none)
    keys,       \* the last two requests _get_cache_key was called for, with their keys
    contexts,   \* MemoryContextStorage.contexts: session id -> SessionContext
    answer,     \* what the ContextManager call just made gave its caller
    generated,  \* the generate_response call just made and the map it returned
    settings    \* the Settings object the components were constructed with

\* The state of the BackendIntegrator.
ivars == <<use_mock_services, request, result, health>>

\* The state of one adapter layer: clock, breakers, caches, calls in flight.
avars == <<now, breaker, cache, inflight, ret, consec, adapter, nadv>>

\* The settings, and the state of the components beside the integration layer.
xvars == <<keys, contexts, answer, generated, settings>>

vars == <<now, breaker, cache, inflight, ret, consec, adapter, nadv,
          use_mock_services, request, result, health,
          keys, contexts, answer, generated, settings>>

----------------------------------------------------------------------------
(* Bounds of the model *)

\* Clock advances in one behaviour.
MaxAdvances == 1
\* The failure count up to which calls that raise are explored.
MaxFailures == 6
\* The cool-downs after which the backend of a recovery has recovered.
MaxCoolDowns == 2

\* Coroutines that may be inside an adapter operation at the same time.
Callers == {"t1", "t2"}

\* Coroutines that call the BackendIntegrator.
Clients == {"t1"}

\* Amounts by which the clock moves between two steps of the event loop:
\* less than the cool-down, exactly the cache ttl, and one whole day.
ClockSteps == {30, 300, 86400}

----------------------------------------------------------------------------
(* Program constants *)

failure_threshold == 5
timeout == 60
cache_ttl == 300

Services == {"order", "inventory", "product", "store"}

Ops == {"get_order", "update_order_status", "check_availability",
        "reserve_inventory", "get_product_info", "search_products",
        "find_stores", "get_store_details"}

\* The adapter (and so the breaker and the cache) an operation belongs to.
Service(op) ==
    CASE op \in {"get_order", "update_order_status"} -> "order"
      [] op \in {"check_availability", "reserve_inventory"} -> "inventory"
      [] op \in {"get_product_info", "search_products"} -> "product"
      [] op \in {"find_stores", "get_store_details"} -> "store"

Method(op) ==
    CASE op = "update_order_status" -> "PUT"
      [] op = "reserve_inventory" -> "POST"
      [] OTHER -> "GET"

\* A Python str is the sequence of its tokens: a token is one punctuation
\* character or a maximal run of letters, digits and underscores, so that
\* two strs are equal exactly when their token sequences are.
Endpoint(op) ==
    CASE op = "get_order" -> <<"/", "orders", "/", "AB12345678">>
      [] op = "update_order_status" -> <<"/", "orders", "/", "AB12345678", "/", "status">>
      [] op = "check_availability" -> <<"/", "inventory", "/", "iphone13">>
      [] op = "reserve_inventory" -> <<"/", "inventory", "/", "iphone13", "/", "reserve">>
      [] op = "get_product_info" -> <<"/", "products", "/", "iphone13">>
      [] op = "search_products" -> <<"/", "products", "/", "search">>
      [] op = "find_stores" -> <<"/", "stores", "/", "search">>
      [] op = "get_store_details" -> <<"/", "stores", "/", "s1">>

\* The operations whose body is inside try/except Exception.
Guarded(op) ==
    op \in {"get_order", "check_availability", "get_product_info", "find_stores"}

\* The value of the one caller-supplied query parameter of an operation:
\* "none" (absent), "v1" (a string) or "bad" (a value json.dumps rejects).
OpArgs(op) ==
    CASE op \in {"get_order", "check_availability"} -> {"none", "bad"}
      [] op \in {"search_products", "find_stores"} -> {"v1", "bad"}
      [] OTHER -> {"none"}

\* Python values that appear in a params dict: a str by its tokens, an int
\* by its decimal digits, and an object json.dumps has no encoding for.
PyStr(text) == [type |-> "str", val |-> text]
PyInt(digits) == [type |-> "int", val |-> <<digits>>]
Unserialisable == [type |-> "object", val |-> <<>>]

\* The Python value of a caller-supplied argument.
ArgValue(arg) == IF arg = "bad" THEN Unserialisable ELSE PyStr(<<arg>>)

\* One item of a dict, and a dict as the sequence of its items in insertion
\* order (<<>> is the empty dict, and None where a dict is optional).
Item(name, value) == [name |-> name, value |-> value]

\* The params dict an operation passes to _make_request.
Params(op, arg) ==
    CASE op = "get_order" ->
            IF arg = "none" THEN <<>> ELSE <<Item("customer_id", ArgValue(arg))>>
      [] op = "check_availability" ->
            IF arg = "none" THEN <<>> ELSE <<Item("location", ArgValue(arg))>>
      [] op = "search_products" ->
            <<Item("query", ArgValue(arg)), Item("limit", PyInt("10"))>>
      [] op = "find_stores" ->
            <<Item("location", ArgValue(arg)), Item("radius", PyInt("25"))>>
      [] OTHER -> <<>>

BaseUrl(s) == <<"https", ":", "/", "/", s>>

----------------------------------------------------------------------------
(* CircuitBreaker *)

NewBreaker ==
    [state |-> "closed", failure_count |-> 0, last_failure_time |-> <<>>]

\* datetime.now() - last_failure_time > timedelta(seconds=timeout)
CoolDownElapsed(b, t) == t - b.last_failure_time[1] > timeout

\* BreakerAdmits of a gate that never lets a call through an open breaker.
BreakerAdmits_NeverAgain(b, t) == b.state # "open"

\* The gate at the top of call: FALSE when call raises "Circuit breaker is open".
BreakerAdmits(b, t) == IF b.state = "open" THEN CoolDownElapsed(b, t) ELSE TRUE

\* The breaker once an admitted call is past the gate.
BreakerEnter(b) ==
    IF b.state = "open" THEN [b EXCEPT !.state = "half-open"] ELSE b

\* BreakerOnSuccess that also resets the failure count when the state is
\* not half-open.
BreakerOnSuccess_AlwaysResets(b) ==
    IF b.state = "half-open"
    THEN [b EXCEPT !.state = "closed", !.failure_count = 0]
    ELSE [b EXCEPT !.failure_count = 0]

\* The wrapped operation returned.
BreakerOnSuccess(b) ==
    IF b.state = "half-open"
    THEN [b EXCEPT !.state = "closed", !.failure_count = 0]
    ELSE b

\* BreakerOnFailure that keeps the time of the failure that opened the
\* breaker when the trial call of a half-open breaker raises.
BreakerOnFailure_StaleTime(b, t) ==
    [state |-> IF b.failure_count + 1 >= failure_threshold THEN "open" ELSE b.state,
     failure_count |-> b.failure_count + 1,
     last_failure_time |-> IF b.state = "half-open" THEN b.last_failure_time ELSE <<t>>]

\* BreakerOnFailure with the threshold compared by > instead of >=.
BreakerOnFailure_LateOpen(b, t) ==
    [state |-> IF b.failure_count + 1 > failure_threshold THEN "open" ELSE b.state,
     failure_count |-> b.failure_count + 1,
     last_failure_time |-> <<t>>]

\* The wrapped operation raised.
BreakerOnFailure(b, t) ==
    [state |-> IF b.failure_count + 1 >= failure_threshold THEN "open" ELSE b.state,
     failure_count |-> b.failure_count + 1,
     last_failure_time |-> <<t>>]

----------------------------------------------------------------------------
(* Response cache *)

\* The str escapes of json.dumps: a quote and a backslash get a backslash.
RECURSIVE JsonEscape(_)
JsonEscape(text) ==
    IF text = <<>>
    THEN <<>>
    ELSE (IF Head(text) \in {"\"", "\\"} THEN <<"\\", Head(text)>> ELSE <<Head(text)>>)
            \o JsonEscape(Tail(text))

\* json.dumps of a value: a str between quotes, an int as its digits.  An
\* object makes json.dumps raise (CacheKeyRaises): it has no text.
JsonValue(value) ==
    IF value.type = "str"
    THEN <<"\"">> \o JsonEscape(value.val) \o <<"\"">>
    ELSE value.val

\* The names of the dicts of the model in the order of Python's str
\* comparison, which sort_keys=True sorts by.
NameOrder ==
    <<"a", "b", "category", "customer_id", "limit", "location", "query", "radius">>

Rank(name) == CHOOSE i \in DOMAIN NameOrder : NameOrder[i] = name

\* sorted(dict.items()) by key: the names of a dict are distinct.
RECURSIVE SortKeys(_)
SortKeys(items) ==
    IF items = <<>>
    THEN <<>>
    ELSE LET i == CHOOSE i \in DOMAIN items :
                    \A j \in DOMAIN items : Rank(items[i].name) <= Rank(items[j].name)
         IN <<items[i]>> \o
            SortKeys([k \in 1..(Len(items) - 1) |->
                        IF k < i THEN items[k] ELSE items[k + 1]])

\* ", ".join of the items '"name": value'.
RECURSIVE JsonItems(_)
JsonItems(items) ==
    IF items = <<>>
    THEN <<>>
    ELSE <<"\"", Head(items).name, "\"", ":", " ">> \o JsonValue(Head(items).value)
            \o (IF Tail(items) = <<>> THEN <<>> ELSE <<",", " ">> \o JsonItems(Tail(items)))

\* json.dumps(params, sort_keys=True)
JsonDumps(params) == <<"{">> \o JsonItems(SortKeys(params)) \o <<"}">>

\* key = f"{self.base_url}{endpoint}"; if params: key += "?" + json.dumps(...)
GetCacheKey(base_url, endpoint, params) ==
    base_url \o endpoint \o
        (IF params # <<>> THEN <<"?">> \o JsonDumps(params) ELSE <<>>)

\* timedelta.seconds: the seconds field of a normalized timedelta,
\* which leaves the days out.
TimedeltaSeconds(d) == d % 86400

\* cache_entry is <<>> for a missing key (dict.get gives None).
IsCacheValid(cache_entry, t) ==
    IF cache_entry = <<>>
    THEN FALSE
    ELSE TimedeltaSeconds(t - cache_entry[1].timestamp) < cache_ttl

\* UsesCache without the test of the method.
UsesCache_AnyMethod(method, use_cache) == use_cache

\* method.upper() == "GET" and use_cache
UsesCache(method, use_cache) == method = "GET" /\ use_cache

CacheGet(c, key) == IF key \in DOMAIN c THEN <<c[key]>> ELSE <<>>

CachePut(c, key, entry) == (key :> entry) @@ c

----------------------------------------------------------------------------
(* APIResponse and BaseService._make_request *)

APIResponse(success, data, error, status_code, cached) ==
    [success |-> success, data |-> data, error |-> error,
     status_code |-> status_code, cached |-> cached]

\* How the network request of _make_request can end.
Outcomes == {"200", "404", "500", "timeout", "client_error"}

\* The APIResponse _make_request builds from the end of its network request.
HttpResponse(outcome) ==
    CASE outcome = "200" -> APIResponse(TRUE, "body", "None", "200", FALSE)
      [] outcome \in {"404", "500"} ->
            APIResponse(FALSE, "None", IF outcome = "404" THEN "HTTP 404" ELSE "HTTP 500",
                        outcome, FALSE)
      [] outcome = "timeout" ->
            APIResponse(FALSE, "None", "Request timeout", "None", FALSE)
      [] outcome = "client_error" ->
            APIResponse(FALSE, "None", "Client error", "None", FALSE)

\* The APIResponse _make_request returns on a cache hit.
CachedResponse(cache_entry) ==
    APIResponse(TRUE, cache_entry.data, "None", "None", TRUE)

\* json.dumps(params, sort_keys=True) raises TypeError: the key is built,
\* outside the try block, only for a cacheable request with non-empty params.
CacheKeyRaises(method, params) ==
    /\ UsesCache(method, TRUE)
    /\ \E i \in DOMAIN params : params[i].value = Unserialisable

\* _make_request answers from the cache, without a network request.
CacheHit(c, method, key, t) ==
    UsesCache(method, TRUE) /\ IsCacheValid(CacheGet(c, key), t)

\* CacheAfter without the test of use_cache.
CacheAfter_IgnoresUseCache(c, method, use_cache, key, outcome, t) ==
    IF outcome = "200" /\ method = "GET"
    THEN CachePut(c, key, [data |-> HttpResponse(outcome).data, timestamp |-> t])
    ELSE c

\* CacheAfter of a cache that drops the entry of a request that failed.
CacheAfter_EvictsOnFailure(c, method, use_cache, key, outcome, t) ==
    IF outcome = "200" /\ UsesCache(method, use_cache)
    THEN CachePut(c, key, [data |-> HttpResponse(outcome).data, timestamp |-> t])
    ELSE [k \in DOMAIN c \ {key} |-> c[k]]

\* The cache after _make_request got `outcome` from the network at time t.
CacheAfter(c, method, use_cache, key, outcome, t) ==
    IF outcome = "200" /\ UsesCache(method, use_cache)
    THEN CachePut(c, key, [data |-> HttpResponse(outcome).data, timestamp |-> t])
    ELSE c

----------------------------------------------------------------------------
(* The adapter operations *)

CircuitOpenError == "Circuit breaker is open"

\* What a guarded operation returns when the response is unsuccessful or empty.
NotFoundResponse(op) ==
    CASE op = "get_order" ->
            APIResponse(TRUE, "not_found", "Order not found", "None", FALSE)
      [] op = "check_availability" ->
            APIResponse(TRUE, "not_found", "None", "None", FALSE)
      [] op = "get_product_info" ->
            APIResponse(TRUE, "not_found", "Product not found", "None", FALSE)
      [] op = "find_stores" ->
            APIResponse(TRUE, "not_found", "No stores found", "None", FALSE)

\* What the operation gives its caller when breaker.call returned `response`.
OnResponse(op, arg, response) ==
    [kind |-> "returned", op |-> op, arg |-> arg,
     response |->
        IF Guarded(op)
        THEN IF response.success /\ response.data # "None"
             THEN APIResponse(TRUE, "found", "None", "None", FALSE)
             ELSE NotFoundResponse(op)
        ELSE response]

\* What the operation gives its caller when breaker.call raised `error`.
OnException(op, arg, error) ==
    [kind |-> IF Guarded(op) THEN "returned" ELSE "raised", op |-> op, arg |-> arg,
     response |-> APIResponse(FALSE, "None", error, "None", FALSE)]

NoReturn ==
    [kind |-> "none", op |-> "none", arg |-> "none",
     response |-> APIResponse(FALSE, "None", "None", "None", FALSE)]

KeyOf(op, arg) ==
    GetCacheKey(BaseUrl(Service(op)), Endpoint(op), Params(op, arg))

----------------------------------------------------------------------------
(* BackendIntegrator: what process_request and get_health_status compute *)

\* The intents process_request routes, and one it does not know.
SupportedIntents ==
    {"track_order", "inventory_check", "product_info", "store_locator", "pricing"}

Intents == SupportedIntents \cup {"returns"}

\* MockService.mock_data["orders"]: the order numbers of the mock dataset.
MockOrders == {"AB12345678"}

\* Entity values the caller may supply: "bad" is a value that is not a string.
OrderNumbers == {"AB12345678", "ZZ00000000"}
Products == {"iPhone 13", "bad"}
Locations == {"Seattle", "bad"}
CustomerIds == {"None", "bad"}

\* The customer ids tried with an intent: only track_order passes them on.
CustomerIdsFor(intent) == IF intent = "track_order" THEN CustomerIds ELSE {"None"}

\* Whether the details of the product hold the text "price": only
\* _handle_pricing looks.
PriceTextFor(intent) == IF intent = "pricing" THEN BOOLEAN ELSE {FALSE}

\* The lists an entity key can hold: empty (or the key absent), or one value.
Lists(S) == {<<>>} \cup {<<x>> : x \in S}

NoEntities ==
    [order_number |-> <<>>, products |-> <<>>, product_mention |-> <<>>,
     locations |-> <<>>, store_location |-> <<>>]

\* The entities maps tried with an intent: the keys its handler reads vary.
EntitiesFor(intent) ==
    CASE intent = "track_order" ->
            {[NoEntities EXCEPT !.order_number = l] : l \in Lists(OrderNumbers)}
      [] intent \in {"inventory_check", "product_info", "pricing"} ->
            {[NoEntities EXCEPT !.products = a, !.product_mention = b] :
                a \in Lists(Products), b \in Lists(Products)}
      [] intent = "store_locator" ->
            {[NoEntities EXCEPT !.locations = a, !.store_location = b] :
                a \in Lists(Locations), b \in Lists(Locations)}
      [] OTHER -> {NoEntities, [NoEntities EXCEPT !.order_number = <<"AB12345678">>]}

\* a or b, on lists.
OrElse(a, b) == IF a # <<>> THEN a ELSE b

\* The list of candidates the handler of an intent reads from the entities.
Candidates(intent, entities) ==
    CASE intent = "track_order" -> entities.order_number
      [] intent \in {"inventory_check", "product_info"} ->
            OrElse(entities.products, entities.product_mention)
      [] intent = "pricing" -> entities.products
      [] intent = "store_locator" ->
            OrElse(entities.locations, entities.store_location)

\* The handlers that return an error when their list of candidates is empty.
RequiresEntity(intent) ==
    intent \in {"track_order", "inventory_check", "product_info", "pricing"}

MissingEntityError(intent) ==
    IF intent = "track_order" THEN "No order number provided" ELSE "No product specified"

\* The adapter and the operation the handler of an intent calls.
HandlerService(intent) ==
    CASE intent = "track_order" -> "order"
      [] intent = "inventory_check" -> "inventory"
      [] intent \in {"product_info", "pricing"} -> "product"
      [] intent = "store_locator" -> "store"

HandlerOp(intent) ==
    CASE intent = "track_order" -> "get_order"
      [] intent = "inventory_check" -> "check_availability"
      [] intent \in {"product_info", "pricing"} -> "get_product_info"
      [] intent = "store_locator" -> "find_stores"

\* products[0].lower().replace(" ", "")
ProductId(product) ==
    CASE product = "iPhone 13" -> "iphone13"
      [] OTHER -> product

\* The first candidate as the handler passes it on: the order number, the
\* product id, or the location ("current location" when none is given).
FirstEntity(intent, entities) ==
    LET l == Candidates(intent, entities) IN
    CASE intent = "store_locator" -> IF l = <<>> THEN "current location" ELSE l[1]
      [] intent = "track_order" -> l[1]
      [] OTHER -> ProductId(l[1])

\* The handler raises before it reaches the adapter: lower() of a value that
\* is not a string.
HandlerRaises(intent, entities) ==
    /\ intent \in {"inventory_check", "product_info", "pricing"}
    /\ Candidates(intent, entities) # <<>>
    /\ Candidates(intent, entities)[1] = "bad"

\* The order number and the product id whose requests the live adapters are
\* followed for; whether the backend knows them is in its answer.
Followed(op) ==
    CASE op = "get_order" -> "AB12345678"
      [] op \in {"check_availability", "get_product_info"} -> "iphone13"

\* The argument of the adapter operation as the handler calls it.
HandlerArg(intent, entities, customer_id) ==
    CASE intent = "track_order" -> IF customer_id = "None" THEN "none" ELSE customer_id
      [] intent = "store_locator" -> FirstEntity(intent, entities)
      [] OTHER -> "none"

\* The registry BackendIntegrator.services: the adapter object behind each
\* service name.  The mock configuration registers one MockService for all.
ServiceNames == <<"order", "inventory", "product", "store">>

services(mock) ==
    [s \in Services |-> IF mock THEN "mock_service" ELSE s]

\* The domain operations an adapter object has.
HasOp(object, op) == object # "mock_service" /\ Service(op) = object

ErrorMap(e) == [key |-> "error", value |-> e]

\* The key of the dict an operation returns as data.
DataKey(op) ==
    CASE op = "get_order" -> "order_info"
      [] op = "check_availability" -> "inventory_info"
      [] op = "get_product_info" -> "product_info"
      [] op = "find_stores" -> "stores"

\* response.data if response.success else {"error": response.error}
HandlerReturn(op, response) ==
    IF response.success
    THEN [key |-> DataKey(op), value |-> response.data]
    ELSE ErrorMap(response.error)

\* _handle_pricing: has_price says whether the details of the product hold
\* the text "price".
PricingReturn(response, has_price) ==
    IF response.success /\ response.data = "found" /\ has_price
    THEN [key |-> "pricing_info", value |-> "See product details"]
    ELSE ErrorMap("Pricing information not available")

\* What process_request gives its caller: the map, with the intent and the
\* entities it was called with and how the backend request that ended in this
\* step ended ("none" when no request ended).
ProcessReturn(intent, entities, backend, map) ==
    [kind |-> "returned", intent |-> intent, entities |-> entities,
     backend |-> backend, map |-> map]

NoResult ==
    [kind |-> "none", intent |-> "none", entities |-> NoEntities,
     backend |-> "none", map |-> ErrorMap("None")]

\* process_request with an intent that has no handler, as a fake integrator
\* would answer it: with data instead of an error.
UnsupportedReturn_Data(intent, entities) ==
    ProcessReturn(intent, entities, "none", [key |-> "data", value |-> <<"data", intent>>])

\* return {"error": f"Unsupported intent: {intent}"}
UnsupportedReturn(intent, entities) ==
    ProcessReturn(intent, entities, "none", ErrorMap(<<"Unsupported intent", intent>>))

\* OnHandlerException without the except clause: the exception propagates.
OnHandlerException_Propagates(intent, entities, error) ==
    [kind |-> "raised", intent |-> intent, entities |-> entities,
     backend |-> "none", map |-> ErrorMap(error)]

\* except Exception as e: return {"error": str(e)}
OnHandlerException(intent, entities, error) ==
    ProcessReturn(intent, entities, "none", ErrorMap(error))

\* How the request of a health probe can end: as any request, or by an
\* exception _make_request does not catch (the cancellation of the request).
ProbeOutcomes == Outcomes \cup {"raises"}

\* HealthCheck with the except clause answering degraded.
HealthCheck_RaisesDegraded(outcome) ==
    IF outcome = "raises"
    THEN "degraded"
    ELSE IF HttpResponse(outcome).success THEN "healthy" ELSE "degraded"

\* health_check of the live adapters, from the end of its request.
HealthCheck(outcome) ==
    IF outcome = "raises"
    THEN "unavailable"
    ELSE IF HttpResponse(outcome).success THEN "healthy" ELSE "degraded"

\* ProbeAdmitted for a health_check that went through circuit_breaker.call.
ProbeAdmitted_Gated(b, t) == BreakerAdmits(b, t)

\* health_check calls _make_request itself, not through the breaker b of its
\* adapter: the request is sent whatever the state of b.
ProbeAdmitted(b, t) == TRUE

\* health_check of the MockService.
MockHealthCheck == "healthy"

\* What a step of get_health_status leaves: the health_status dict so far,
\* with the service whose probe ended in this step and how its request
\* ended; kind is "status" when the dict is returned, "probe" before.
HealthReturn(kind, s, outcome, status) ==
    [kind |-> kind, intent |-> s, entities |-> NoEntities,
     backend |-> outcome, map |-> status]

----------------------------------------------------------------------------
(* Settings, as far as BackendIntegrator.initialize reads them *)

Environments == {"development", "staging", "production"}

\* The default of the base URL field of a service in Settings: the
\* placeholder "https://api.example.com/<path>".
DefaultUrl(s) ==
    <<"https", ":", "/", "/", "api", ".", "example", ".", "com", "/",
      CASE s = "order" -> "orders"
        [] s = "inventory" -> "inventory"
        [] s = "product" -> "products"
        [] s = "store" -> "stores">>

\* The values a base URL setting is given: the empty string, the default
\* placeholder, the URL of the live backend.
UrlsFor(s) == {<<>>, DefaultUrl(s), BaseUrl(s)}

SettingsSpace ==
    [ENVIRONMENT : Environments,
     ORDER_API_BASE_URL : UrlsFor("order"),
     INVENTORY_API_BASE_URL : UrlsFor("inventory"),
     PRODUCT_API_BASE_URL : UrlsFor("product"),
     STORE_API_BASE_URL : UrlsFor("store")]

\* The base URL setting of a service.
BaseUrlSetting(config, s) ==
    CASE s = "order" -> config.ORDER_API_BASE_URL
      [] s = "inventory" -> config.INVENTORY_API_BASE_URL
      [] s = "product" -> config.PRODUCT_API_BASE_URL
      [] s = "store" -> config.STORE_API_BASE_URL

\* Settings(): every field at its default.
DefaultSettings ==
    [ENVIRONMENT |-> "development",
     ORDER_API_BASE_URL |-> DefaultUrl("order"),
     INVENTORY_API_BASE_URL |-> DefaultUrl("inventory"),
     PRODUCT_API_BASE_URL |-> DefaultUrl("product"),
     STORE_API_BASE_URL |-> DefaultUrl("store")]

\* The settings of a deployment with the four live backends configured.
LiveSettings ==
    [ENVIRONMENT |-> "production",
     ORDER_API_BASE_URL |-> BaseUrl("order"),
     INVENTORY_API_BASE_URL |-> BaseUrl("inventory"),
     PRODUCT_API_BASE_URL |-> BaseUrl("product"),
     STORE_API_BASE_URL |-> BaseUrl("store")]

\* The test of initialize that sets use_mock_services.
SelectsMock(config) ==
    \/ config.ENVIRONMENT = "development"
    \/ config.ORDER_API_BASE_URL = <<>>
    \/ config.ORDER_API_BASE_URL = DefaultUrl("order")

----------------------------------------------------------------------------
(* State machine *)

\* No call made yet to _get_cache_key, the ContextManager or generate_response.
NoAnswer == [kind |-> "none"]
NoResponse == [kind |-> "none"]

\* The components beside the integration layer, as constructed.
XIdle ==
    /\ keys = <<>>
    /\ contexts = <<>>
    /\ answer = NoAnswer
    /\ generated = NoResponse

\* The adapters constructed with the base URLs of the live backends.
Init ==
    /\ now = 0
    /\ breaker = [s \in Services |-> NewBreaker]
    /\ cache = [s \in Services |-> <<>>]
    /\ inflight = [c \in Callers |-> <<>>]
    /\ ret = NoReturn
    /\ consec = [s \in Services |-> 0]
    /\ adapter \in Services
    /\ nadv = 0
    /\ use_mock_services = FALSE
    /\ request = [c \in Callers |-> <<>>]
    /\ result = NoResult
    /\ health = <<>>
    /\ settings = LiveSettings
    /\ XIdle

\* Coroutine c is free to call an operation of adapter s.  Every adapter is
\* an object of its own, with its own breaker and cache: a behaviour follows
\* the calls made on one of them.
CanBegin(c, s) == inflight[c] = <<>> /\ s = adapter

\* BeginRejected with the rejection taken for a failure of its own: the
\* open window starts anew.
BeginRejected_ExtendsWindow(c, op, arg) ==
    LET s == Service(op) IN
    /\ CanBegin(c, s)
    /\ ~BreakerAdmits(breaker[s], now)
    /\ breaker' = [breaker EXCEPT ![s].last_failure_time = <<now>>]
    /\ ret' = OnException(op, arg, CircuitOpenError)
    /\ UNCHANGED <<now, cache, inflight, consec, adapter, nadv>>

\* An operation whose call the open breaker rejects.
BeginRejected(c, op, arg) ==
    LET s == Service(op) IN
    /\ CanBegin(c, s)
    /\ ~BreakerAdmits(breaker[s], now)
    /\ ret' = OnException(op, arg, CircuitOpenError)
    /\ UNCHANGED <<now, breaker, cache, inflight, consec, adapter, nadv>>

\* An operation whose request raises while the cache key is built.
BeginRaises(c, op, arg) ==
    LET s == Service(op) IN
    /\ CanBegin(c, s)
    /\ BreakerAdmits(breaker[s], now)
    /\ CacheKeyRaises(Method(op), Params(op, arg))
    /\ breaker[s].failure_count < MaxFailures
    /\ breaker' = [breaker EXCEPT ![s] = BreakerOnFailure(BreakerEnter(@), now)]
    /\ consec' = [consec EXCEPT ![s] = @ + 1]
    /\ ret' = OnException(op, arg, "TypeError")
    /\ UNCHANGED <<now, cache, inflight, adapter, nadv>>

\* An operation answered from the cache.
BeginCacheHit(c, op, arg) ==
    LET s == Service(op) IN
    /\ CanBegin(c, s)
    /\ BreakerAdmits(breaker[s], now)
    /\ ~CacheKeyRaises(Method(op), Params(op, arg))
    /\ CacheHit(cache[s], Method(op), KeyOf(op, arg), now)
    /\ breaker' = [breaker EXCEPT ![s] = BreakerOnSuccess(BreakerEnter(@))]
    /\ consec' = [consec EXCEPT ![s] = 0]
    /\ ret' = OnResponse(op, arg, CachedResponse(cache[s][KeyOf(op, arg)]))
    /\ UNCHANGED <<now, cache, inflight, adapter, nadv>>

\* An operation that sends its request and suspends until the answer.
BeginDispatch(c, op, arg) ==
    LET s == Service(op) IN
    /\ CanBegin(c, s)
    /\ BreakerAdmits(breaker[s], now)
    /\ ~CacheKeyRaises(Method(op), Params(op, arg))
    /\ ~CacheHit(cache[s], Method(op), KeyOf(op, arg), now)
    /\ breaker' = [breaker EXCEPT ![s] = BreakerEnter(@)]
    /\ inflight' = [inflight EXCEPT ![c] =
            <<[op |-> op, arg |-> arg, trial |-> breaker[s].state = "open", sent |-> 1]>>]
    /\ ret' = NoReturn
    /\ UNCHANGED <<now, cache, consec, adapter, nadv>>

\* Complete of a _make_request that sends a failed request once more
\* before it gives up.
Complete_RetriesOnce(c, outcome) ==
    /\ inflight[c] # <<>>
    /\ LET op == inflight[c][1].op
           arg == inflight[c][1].arg
           s == Service(op)
       IN IF outcome # "200" /\ inflight[c][1].sent = 1
          THEN /\ inflight' = [inflight EXCEPT ![c] = <<[@[1] EXCEPT !.sent = 2]>>]
               /\ ret' = NoReturn
               /\ UNCHANGED <<cache, breaker, consec>>
          ELSE /\ cache' = [cache EXCEPT ![s] =
                        CacheAfter(@, Method(op), TRUE, KeyOf(op, arg), outcome, now)]
               /\ breaker' = [breaker EXCEPT ![s] = BreakerOnSuccess(@)]
               /\ consec' = [consec EXCEPT ![s] = 0]
               /\ ret' = OnResponse(op, arg, HttpResponse(outcome))
               /\ inflight' = [inflight EXCEPT ![c] = <<>>]
    /\ UNCHANGED <<now, adapter, nadv>>

\* The network request of a suspended operation ends and the operation returns.
Complete(c, outcome) ==
    /\ inflight[c] # <<>>
    /\ LET op == inflight[c][1].op
           arg == inflight[c][1].arg
           s == Service(op)
       IN /\ cache' = [cache EXCEPT ![s] =
                    CacheAfter(@, Method(op), TRUE, KeyOf(op, arg), outcome, now)]
          /\ breaker' = [breaker EXCEPT ![s] = BreakerOnSuccess(@)]
          /\ consec' = [consec EXCEPT ![s] = 0]
          /\ ret' = OnResponse(op, arg, HttpResponse(outcome))
    /\ inflight' = [inflight EXCEPT ![c] = <<>>]
    /\ UNCHANGED <<now, adapter, nadv>>

\* Time passes.
Advance(d) ==
    /\ nadv < MaxAdvances
    /\ now' = now + d
    /\ nadv' = nadv + 1
    /\ ret' = NoReturn
    /\ UNCHANGED <<breaker, cache, inflight, consec, adapter>>

\* The adapter operations called directly, with the BackendIntegrator idle.
Next ==
    \/ \E c \in Callers, op \in Ops : \E arg \in OpArgs(op) :
            BeginRejected(c, op, arg) /\ UNCHANGED <<ivars, xvars>>
    \/ \E c \in Callers, op \in Ops : \E arg \in OpArgs(op) :
            BeginRaises(c, op, arg) /\ UNCHANGED <<ivars, xvars>>
    \/ \E c \in Callers, op \in Ops : \E arg \in OpArgs(op) :
            BeginCacheHit(c, op, arg) /\ UNCHANGED <<ivars, xvars>>
    \/ \E c \in Callers, op \in Ops : \E arg \in OpArgs(op) :
            BeginDispatch(c, op, arg) /\ UNCHANGED <<ivars, xvars>>
    \/ \E c \in Callers, outcome \in Outcomes :
            Complete(c, outcome) /\ UNCHANGED <<ivars, xvars>>
    \/ \E d \in ClockSteps :
            Advance(d) /\ UNCHANGED <<ivars, xvars>>

Spec == Init /\ [][Next]_vars

----------------------------------------------------------------------------
(* BackendIntegrator: state machine *)

\* The state after BackendIntegrator.initialize, with live or mock adapters.
InitIntegrator ==
    /\ now = 0
    /\ breaker = [s \in Services |-> NewBreaker]
    /\ cache = [s \in Services |-> <<>>]
    /\ inflight = [c \in Callers |-> <<>>]
    /\ ret = NoReturn
    /\ consec = [s \in Services |-> 0]
    /\ adapter \in Services
    /\ nadv = 0
    /\ settings \in {DefaultSettings, LiveSettings}
    /\ use_mock_services = SelectsMock(settings)
    /\ request = [c \in Callers |-> <<>>]
    /\ result = NoResult
    /\ health = <<>>
    /\ XIdle

\* Coroutine c is free to call process_request.
CanRequest(c) == request[c] = <<>> /\ inflight[c] = <<>>

\* NoAdapterCall for a handler that calls the adapter before it looks at the
\* entities, the call counted as a failure by the breaker.
NoAdapterCall_CountsFailure ==
    /\ ret' = NoReturn
    /\ breaker' = [breaker EXCEPT ![adapter] = BreakerOnFailure(@, now)]
    /\ UNCHANGED <<now, cache, inflight, consec, adapter, nadv>>

\* A step of process_request in which no adapter operation runs.
NoAdapterCall ==
    /\ ret' = NoReturn
    /\ UNCHANGED <<now, breaker, cache, inflight, consec, adapter, nadv>>

\* process_request with an intent it has no handler for.
RequestUnsupported(c, intent, entities) ==
    /\ CanRequest(c)
    /\ intent \notin SupportedIntents
    /\ result' = UnsupportedReturn(intent, entities)
    /\ NoAdapterCall
    /\ UNCHANGED <<use_mock_services, request, health>>

\* process_request whose handler finds its list of candidates empty.
RequestMissingEntity(c, intent, entities) ==
    /\ CanRequest(c)
    /\ intent \in SupportedIntents
    /\ RequiresEntity(intent)
    /\ Candidates(intent, entities) = <<>>
    /\ result' = ProcessReturn(intent, entities, "none", ErrorMap(MissingEntityError(intent)))
    /\ NoAdapterCall
    /\ UNCHANGED <<use_mock_services, request, health>>

\* The handler has its entity and the registered adapter has the operation.
ReachesAdapter(intent, entities) ==
    /\ intent \in SupportedIntents
    /\ RequiresEntity(intent) => Candidates(intent, entities) # <<>>
    /\ ~HandlerRaises(intent, entities)
    /\ HasOp(services(use_mock_services)[HandlerService(intent)], HandlerOp(intent))

\* process_request whose handler raises before an adapter operation runs (the
\* entity is not a string, or the registered adapter has no such operation):
\* the exception is caught and returned as an error map.
RequestHandlerRaises(c, intent, entities) ==
    /\ CanRequest(c)
    /\ intent \in SupportedIntents
    /\ RequiresEntity(intent) => Candidates(intent, entities) # <<>>
    /\ ~ReachesAdapter(intent, entities)
    /\ result' = OnHandlerException(intent, entities,
                    IF HandlerRaises(intent, entities)
                    THEN <<"AttributeError", "lower">>
                    ELSE <<"AttributeError", HandlerOp(intent)>>)
    /\ NoAdapterCall
    /\ UNCHANGED <<use_mock_services, request, health>>

\* An adapter operation called: it ends at once or suspends on its request.
AdapterCall(c, op, arg) ==
    \/ BeginRejected(c, op, arg)
    \/ BeginRaises(c, op, arg)
    \/ BeginCacheHit(c, op, arg)
    \/ BeginDispatch(c, op, arg)

\* The map the handler of an intent makes of the APIResponse of its operation.
HandlerMap(intent, response, has_price) ==
    IF intent = "pricing"
    THEN PricingReturn(response, has_price)
    ELSE HandlerReturn(HandlerOp(intent), response)

\* process_request whose handler calls its adapter operation.
RequestCall(c, intent, entities, customer_id, has_price) ==
    /\ CanRequest(c)
    /\ ReachesAdapter(intent, entities)
    /\ intent # "store_locator" => FirstEntity(intent, entities) = Followed(HandlerOp(intent))
    /\ AdapterCall(c, HandlerOp(intent), HandlerArg(intent, entities, customer_id))
    /\ IF inflight'[c] # <<>>
       THEN /\ request' = [request EXCEPT ![c] =
                    <<[intent |-> intent, entities |-> entities]>>]
            /\ result' = NoResult
       ELSE /\ request' = request
            /\ result' = ProcessReturn(intent, entities, "none",
                            HandlerMap(intent, ret'.response, has_price))
    /\ UNCHANGED <<use_mock_services, health>>

\* The request of a suspended process_request ends: the operation, the
\* handler and process_request return.
RequestComplete(c, outcome, has_price) ==
    /\ request[c] # <<>>
    /\ has_price \in PriceTextFor(request[c][1].intent)
    /\ Complete(c, outcome)
    /\ result' = ProcessReturn(request[c][1].intent, request[c][1].entities, outcome,
                    HandlerMap(request[c][1].intent, ret'.response, has_price))
    /\ request' = [request EXCEPT ![c] = <<>>]
    /\ UNCHANGED <<use_mock_services, health>>

\* status.value of a health_check, or unavailable when it raised.
HealthEntry(check) == IF check = "raised" THEN "unavailable" ELSE check

\* get_health_status with live adapters starts: the probe of the first
\* registered service is sent.
HealthBegin ==
    /\ health = <<>>
    /\ ~use_mock_services
    /\ health' = <<[todo |-> ServiceNames, status |-> [s \in {} |-> "none"]]>>
    /\ result' = NoResult
    /\ NoAdapterCall
    /\ UNCHANGED <<use_mock_services, request>>

\* The probe in flight ends: its entry is written, and the next probe is
\* sent or the dict is returned.
HealthProbe(outcome) ==
    /\ health # <<>>
    /\ LET s == Head(health[1].todo)
           done == health[1].status
           check == IF ProbeAdmitted(breaker[s], now)
                    THEN HealthCheck(outcome)
                    ELSE "unavailable"
           status == [t \in DOMAIN done \cup {s} |->
                        IF t = s THEN HealthEntry(check) ELSE done[t]]
       IN /\ cache' = [cache EXCEPT ![s] =
                    CacheAfter(@, "GET", FALSE,
                               GetCacheKey(BaseUrl(s), <<"/", "health">>, <<>>), outcome, now)]
          /\ IF Tail(health[1].todo) = <<>>
             THEN /\ health' = <<>>
                  /\ result' = HealthReturn("status", s, outcome, status)
             ELSE /\ health' = <<[todo |-> Tail(health[1].todo), status |-> status]>>
                  /\ result' = HealthReturn("probe", s, outcome, status)
    /\ ret' = NoReturn
    /\ UNCHANGED <<now, breaker, inflight, consec, adapter, nadv, use_mock_services, request>>

\* get_health_status with the mock adapter: no probe suspends.
HealthMock ==
    /\ health = <<>>
    /\ use_mock_services
    /\ result' = HealthReturn("status", "none", "none",
                    [s \in Services |-> HealthEntry(MockHealthCheck)])
    /\ NoAdapterCall
    /\ UNCHANGED <<use_mock_services, request, health>>

\* Time passes between two steps of the BackendIntegrator.
Tick(d) ==
    /\ Advance(d)
    /\ result' = NoResult
    /\ UNCHANGED <<use_mock_services, request, health>>

NextIntegrator ==
    \/ \E c \in Clients, intent \in Intents : \E entities \in EntitiesFor(intent) :
            RequestUnsupported(c, intent, entities) /\ UNCHANGED xvars
    \/ \E c \in Clients, intent \in Intents : \E entities \in EntitiesFor(intent) :
            RequestMissingEntity(c, intent, entities) /\ UNCHANGED xvars
    \/ \E c \in Clients, intent \in Intents : \E entities \in EntitiesFor(intent) :
            RequestHandlerRaises(c, intent, entities) /\ UNCHANGED xvars
    \/ \E c \in Clients, intent \in Intents : \E entities \in EntitiesFor(intent) :
            \E customer_id \in CustomerIdsFor(intent), has_price \in PriceTextFor(intent) :
                RequestCall(c, intent, entities, customer_id, has_price) /\ UNCHANGED xvars
    \/ \E c \in Clients, outcome \in Outcomes, has_price \in BOOLEAN :
            RequestComplete(c, outcome, has_price) /\ UNCHANGED xvars
    \/ \E d \in ClockSteps : Tick(d) /\ UNCHANGED xvars

SpecIntegrator == InitIntegrator /\ [][NextIntegrator]_vars

\* A track_order request whose customer id json.dumps rejects: the one
\* request that makes the breaker of the order adapter count a failure.
FailingEntities == [NoEntities EXCEPT !.order_number = <<"AB12345678">>]

\* get_health_status, next to requests that drive the order breaker through
\* its states and to the passing of time.
NextHealth ==
    \/ \E c \in Clients :
            RequestCall(c, "track_order", FailingEntities, "bad", FALSE) /\ UNCHANGED xvars
    \/ HealthBegin /\ UNCHANGED xvars
    \/ \E outcome \in ProbeOutcomes : HealthProbe(outcome) /\ UNCHANGED xvars
    \/ HealthMock /\ UNCHANGED xvars
    \/ \E d \in ClockSteps : Tick(d) /\ UNCHANGED xvars

SpecHealth == InitIntegrator /\ [][NextHealth]_vars

----------------------------------------------------------------------------
(* What a step was, read from the two states it joins *)

\* Coroutine c sent the network request of an operation of adapter s.
Dispatched(c, s) ==
    /\ inflight[c] = <<>>
    /\ inflight'[c] # <<>>
    /\ Service(inflight'[c][1].op) = s

\* The network request of coroutine c, made for adapter s, ended.
Completed(c, s) ==
    /\ inflight[c] # <<>>
    /\ inflight'[c] = <<>>
    /\ Service(inflight[c][1].op) = s

\* An operation of adapter s began and ended without a network request.
EndedAtOnce(s) ==
    /\ inflight' = inflight
    /\ ret'.kind # "none"
    /\ Service(ret'.op) = s

\* The result r is the one of a call that the breaker rejected.
IsRejection(r) == r.kind # "none" /\ r.response.error = CircuitOpenError

\* The result r carries backend data: a response body, raw or transformed.
CarriesData(r) ==
    r.kind = "returned" /\ r.response.success /\ r.response.data \in {"body", "found"}

\* An operation of adapter s began in this step and its wrapped request function ran.
InvokedWrapped(s) ==
    \/ \E c \in Callers : Dispatched(c, s)
    \/ EndedAtOnce(s) /\ ~IsRejection(ret')

\* A call through the breaker of adapter s returned (the wrapped function did not raise).
WrappedReturned(s) ==
    \/ \E c \in Callers : Completed(c, s)
    \/ EndedAtOnce(s) /\ ret'.response.error \notin {CircuitOpenError, "TypeError"}

\* The cache of adapter s holds an entry for the request of (op, arg) younger than the ttl.
FreshEntry(s, op, arg) ==
    /\ Method(op) = "GET"
    /\ KeyOf(op, arg) \in DOMAIN cache[s]
    /\ now - cache[s][KeyOf(op, arg)].timestamp < cache_ttl

----------------------------------------------------------------------------
(* Circuit breaker claims *)

\* C1: once failure_threshold or more calls through a breaker have raised in
\* a row, the breaker is open at the end of the last of them, and a call made
\* on the open breaker before the cool-down has elapsed is rejected with the
\* circuit-open error: no request function runs, nothing is sent, and the
\* breaker and the cache stay as they are.
C1_OpenAfterThreshold ==
    [][\A s \in Services :
        /\ (consec'[s] > consec[s] /\ consec'[s] >= failure_threshold)
                => breaker'[s].state = "open"
        /\ ( /\ breaker[s].state = "open"
             /\ consec[s] >= failure_threshold
             /\ now - breaker[s].last_failure_time[1] < timeout
             /\ (EndedAtOnce(s) \/ \E c \in Callers : Dispatched(c, s)) )
                => /\ IsRejection(ret')
                   /\ ~InvokedWrapped(s)
                   /\ breaker' = breaker
                   /\ cache' = cache
                   /\ consec' = consec
      ]_vars

\* C1 witness: some time after the fifth failure in a row, and before the
\* cool-down is over, a call was rejected by the open breaker.
C1_Witness ==
    \E s \in Services :
        /\ breaker[s].state = "open"
        /\ consec[s] >= failure_threshold
        /\ now - breaker[s].last_failure_time[1] > 0
        /\ now - breaker[s].last_failure_time[1] < timeout
        /\ IsRejection(ret)
        /\ Service(ret.op) = s

\* C2: in the closed state every call through the breaker that returns
\* resets the failure count to 0, so the breaker opens only at the end of
\* failure_threshold failures in a row.
C2_ClosedSuccessResets ==
    [][\A s \in Services :
        /\ (breaker[s].state = "closed" /\ WrappedReturned(s))
                => breaker'[s].failure_count = 0
        /\ (breaker[s].state = "closed" /\ breaker'[s].state = "open")
                => consec'[s] >= failure_threshold
      ]_vars

\* C3: on an open breaker whose cool-down is over the next call runs the
\* request function; when that trial call returns the breaker is closed with
\* a failure count of 0, and when it raises the breaker is open again.
C3_TrialDecides ==
    [][\A s \in Services :
        /\ ( /\ breaker[s].state = "open"
             /\ now - breaker[s].last_failure_time[1] > timeout
             /\ (EndedAtOnce(s) \/ \E c \in Callers : Dispatched(c, s)) )
                => /\ InvokedWrapped(s)
                   /\ (EndedAtOnce(s) /\ WrappedReturned(s))
                        => (breaker'[s].state = "closed" /\ breaker'[s].failure_count = 0)
                   /\ (EndedAtOnce(s) /\ ~WrappedReturned(s))
                        => breaker'[s].state = "open"
        /\ \A c \in Callers :
             (Completed(c, s) /\ inflight[c][1].trial)
                => (breaker'[s].state = "closed" /\ breaker'[s].failure_count = 0)
      ]_vars

\* The trial call of adapter s is suspended on its network request.
TrialPending(s) ==
    /\ breaker[s].state = "half-open"
    /\ \E c \in Callers :
          inflight[c] # <<>> /\ inflight[c][1].trial /\ Service(inflight[c][1].op) = s

\* C4: while the trial call of a half-open breaker is suspended on its
\* request, no other call through that breaker runs the request function.
C4_OneTrialAtATime ==
    [][\A s \in Services : TrialPending(s) => ~InvokedWrapped(s)]_vars

----------------------------------------------------------------------------
(* Adapter and cache claims *)

\* The backend call behind the result r failed: a timeout, a connection
\* error or a non-200 status.
BackendFailed(r) ==
    IF Guarded(r.op) THEN r.response.data = "not_found" ELSE ~r.response.success

\* C5: every backend call of an adapter that ends in a timeout, a connection
\* error or a non-2xx status adds one to the failure count of the adapter's
\* breaker.
C5_BackendFailureCounts ==
    [][\A s \in Services : \A c \in Callers :
        (Completed(c, s) /\ BackendFailed(ret'))
            => breaker'[s].failure_count = breaker[s].failure_count + 1
      ]_vars

\* The operation (op, arg) of adapter s began in this step and ended without
\* a network request.
AnsweredAtOnce(s, op, arg) == EndedAtOnce(s) /\ ret'.op = op /\ ret'.arg = arg

\* C6: a GET operation repeated while the cache entry of its request is
\* younger than the ttl sends no network request and returns a result
\* flagged as served from the cache.
C6_RepeatServedFromCache ==
    [][\A op \in Ops : \A arg \in OpArgs(op) :
        FreshEntry(Service(op), op, arg)
            => /\ \A c \in Callers :
                    ~(Dispatched(c, Service(op)) /\ inflight'[c][1].op = op
                                                 /\ inflight'[c][1].arg = arg)
               /\ AnsweredAtOnce(Service(op), op, arg) => ret'.response.cached
      ]_vars

\* C7: a cache entry whose age is the ttl or more, however large, is not
\* served: no operation answers from it without a network request, and the
\* successful request that follows stores the entry anew with the current time.
C7_ExpiredNeverServed ==
    [][\A op \in Ops : \A arg \in OpArgs(op) :
        LET s == Service(op)
            key == KeyOf(op, arg)
        IN /\ ( /\ Method(op) = "GET"
                /\ key \in DOMAIN cache[s]
                /\ now - cache[s][key].timestamp >= cache_ttl
                /\ AnsweredAtOnce(s, op, arg) )
                    => ~CarriesData(ret')
           /\ \A c \in Callers :
                ( /\ Completed(c, s)
                  /\ inflight[c][1].op = op /\ inflight[c][1].arg = arg
                  /\ Method(op) = "GET"
                  /\ CarriesData(ret') )
                    => /\ key \in DOMAIN cache'[s]
                       /\ cache'[s][key].timestamp = now
      ]_vars

\* C8: with the breaker of the adapter open, a GET operation whose request
\* has a cache entry younger than the ttl returns the cached data, not the
\* circuit-open failure.
C8_CacheBeforeBreaker ==
    [][\A op \in Ops : \A arg \in OpArgs(op) :
        ( /\ breaker[Service(op)].state = "open"
          /\ FreshEntry(Service(op), op, arg)
          /\ AnsweredAtOnce(Service(op), op, arg) )
            => (CarriesData(ret') /\ ~IsRejection(ret'))
      ]_vars

MutatingOps == {op \in Ops : Method(op) # "GET"}

C10_AdaptersNeverRaise ==
    (ret.kind # "none" /\ ret.arg # "bad") => ret.kind = "returned"

----------------------------------------------------------------------------
(* BackendIntegrator claims *)

\* process_request returned in this step, for the given intent.
Returned(intent) == result'.kind = "returned" /\ result'.intent = intent

\* Ends of a backend request that are failures of the infrastructure: a
\* timeout, a connection error, a non-2xx status other than not-found.
InfrastructureFailures == {"500", "timeout", "client_error"}

\* C11: when the backend request of get_order or get_product_info ends in a
\* timeout, a connection error or a non-2xx status other than not-found, the
\* operation returns success = false with an error, not the {found: false}
\* success result, and process_request returns a map with the error key.
C11_InfrastructureFailureSurfaced ==
    [][\A intent \in {"track_order", "product_info"} :
        (Returned(intent) /\ result'.backend \in InfrastructureFailures)
            => /\ ~ret'.response.success
               /\ ret'.response.error # "None"
               /\ ret'.response.data # "not_found"
               /\ result'.map.key = "error"
      ]_vars

\* The process_request that returned in this step was called with a first
\* candidate for the entity its handler reads, and that candidate is a string.
WithEntity(intent) ==
    /\ Candidates(intent, result'.entities) # <<>>
    /\ Candidates(intent, result'.entities)[1] # "bad"

\* The normalized result of get_order for an order the backend does not have.
OrderNotFound == [key |-> "order_info", value |-> "not_found"]

\* C12: a track_order request for an order number the backend dataset does
\* not hold returns {order_info: {found: false}}, without an error key and
\* without raising: with the live order adapter answered by a 404, and with
\* the mock adapter for a number that is not in its dataset.
C12_AbsentOrderNotFound ==
    [][(/\ result'.kind # "none"
        /\ result'.intent = "track_order"
        /\ WithEntity("track_order")
        /\ IF use_mock_services
           THEN result'.entities.order_number[1] \notin MockOrders
           ELSE result'.backend = "404")
            => (result'.kind = "returned" /\ result'.map = OrderNotFound)
      ]_vars

\* No adapter operation ran in this step and none is left suspended by it.
NoOperationInvoked ==
    /\ ret'.kind = "none"
    /\ inflight' = inflight
    /\ breaker' = breaker
    /\ cache' = cache
    /\ consec' = consec

\* The adapter call of the process_request that ended in this step failed:
\* the operation returned success = false or raised, or the handler raised
\* on the way to it (the operation is missing, the entity is not a string).
AdapterCallFailed ==
    \/ ret'.kind = "raised"
    \/ ret'.kind = "returned" /\ ~ret'.response.success
    \/ /\ ret'.kind = "none"
       /\ result'.intent \in SupportedIntents
       /\ RequiresEntity(result'.intent) => Candidates(result'.intent, result'.entities) # <<>>

\* C13: process_request never raises: whatever the intent, the entities and
\* the behaviour of the adapter, a call that ends returns a map, and the map
\* has the error key whenever the adapter call failed.
C13_ProcessRequestNeverRaises ==
    [][result'.kind # "none"
            => /\ result'.kind = "returned"
               /\ result'.map.key \in {"error", "order_info", "inventory_info",
                                       "product_info", "stores", "pricing_info"}
               /\ AdapterCallFailed => result'.map.key = "error"
      ]_vars

\* C13 witness: process_request returned an error map for a store_locator
\* request whose operation the open breaker rejected.
C13_Witness ==
    /\ result.kind = "returned"
    /\ result.intent = "store_locator"
    /\ result.map = ErrorMap(CircuitOpenError)
    /\ ret.kind = "returned"
    /\ IsRejection(ret)

\* C14: with the required entity missing (no order number for track_order;
\* no product for inventory_check, product_info or pricing) process_request
\* returns an error map and no adapter operation runs: every breaker and
\* every cache stays as it was.
C14_MissingEntityNoCall ==
    [][\A intent \in {"track_order", "inventory_check", "product_info", "pricing"} :
        (Returned(intent) /\ Candidates(intent, result'.entities) = <<>>)
            => /\ result'.map.key = "error"
               /\ result'.map.value = MissingEntityError(intent)
               /\ NoOperationInvoked
      ]_vars

\* C14 witness: a pricing request that names its product only under
\* product_mention was answered with the error, with live adapters of which
\* one has a cache entry.
C14_Witness ==
    /\ result.kind = "returned"
    /\ result.intent = "pricing"
    /\ result.entities.products = <<>>
    /\ result.entities.product_mention # <<>>
    /\ result.map = ErrorMap("No product specified")
    /\ ~use_mock_services
    /\ \E s \in Services : cache[s] # <<>>

\* C15: for every intent outside the supported set process_request returns
\* the 'unsupported' error map and no adapter operation runs.
C15_UnsupportedIntent ==
    [][(result'.kind \in {"returned", "raised"} /\ result'.intent \notin SupportedIntents)
            => /\ result'.kind = "returned"
               /\ result'.map = ErrorMap(<<"Unsupported intent", result'.intent>>)
               /\ NoOperationInvoked
      ]_vars

\* C15 witness: an unsupported intent was answered with the error while a
\* breaker was open.
C15_Witness ==
    /\ result.kind = "returned"
    /\ result.intent \notin SupportedIntents
    /\ result.map.key = "error"
    /\ \E s \in Services : breaker[s].state = "open"

\* C16: with the mock adapters a track_order request for an order of the
\* mock dataset returns order_info with found = true.
C16_MockOrderFound ==
    [][(/\ use_mock_services
        /\ result'.kind # "none"
        /\ result'.intent = "track_order"
        /\ WithEntity("track_order")
        /\ result'.entities.order_number[1] \in MockOrders)
            => /\ result'.kind = "returned"
               /\ result'.map = [key |-> "order_info", value |-> "found"]
      ]_vars

\* C17: with the mock adapters every operation the handlers call exists on
\* the registered adapter, and an inventory_check or product_info request
\* with a product returns inventory_info, respectively product_info, never
\* an error map.
C17_MockHasContract ==
    [][\A intent \in {"inventory_check", "product_info"} :
        (use_mock_services /\ Returned(intent) /\ WithEntity(intent))
            => /\ HasOp(services(use_mock_services)[HandlerService(intent)],
                        HandlerOp(intent))
               /\ result'.map.key = DataKey(HandlerOp(intent))
      ]_vars

\* C18: no two service names are served by the same adapter object, so no
\* breaker and no cache is shared between two services, with live and with
\* mock adapters.
C18_NeverShared ==
    \A s, t \in Services :
        s # t => services(use_mock_services)[s] # services(use_mock_services)[t]

----------------------------------------------------------------------------
(* Health claims *)

HealthValues == {"healthy", "degraded", "unavailable"}

\* A probe of get_health_status ended in this step.
ProbeEnded == result'.kind \in {"probe", "status"} /\ ~use_mock_services

\* C19: get_health_status returns one entry per registered service, each
\* healthy, degraded or unavailable; the entry of a service is unavailable
\* when its probe raised, degraded when the probe ended unsuccessfully and
\* healthy when it succeeded, whatever the state of the service's breaker;
\* the end of a probe changes no entry of another service and no breaker.
C19_HealthMapping ==
    [][/\ result'.kind = "status"
            => /\ DOMAIN result'.map = Services
               /\ \A s \in Services : result'.map[s] \in HealthValues
       /\ ProbeEnded
            => /\ result'.backend = "raises" => result'.map[result'.intent] = "unavailable"
               /\ result'.backend = "200" => result'.map[result'.intent] = "healthy"
               /\ result'.backend \in {"404", "500", "timeout", "client_error"}
                        => result'.map[result'.intent] = "degraded"
               /\ DOMAIN result'.map = DOMAIN health[1].status \cup {result'.intent}
               /\ \A t \in DOMAIN health[1].status :
                        result'.map[t] = health[1].status[t]
               /\ breaker' = breaker
      ]_vars

\* C19 witness: the probe of the order adapter raised while its breaker was
\* closed: the dict returned has order unavailable and the others healthy.
C19_Witness ==
    /\ result.kind = "status"
    /\ ~use_mock_services
    /\ breaker["order"].state = "closed"
    /\ result.map["order"] = "unavailable"
    /\ \A s \in Services \ {"order"} : result.map[s] = "healthy"

\* C20: a health probe is never gated by the breaker: in every breaker
\* state a get_health_status can start and the probe in flight can end in
\* every way its request can end; a probe whose request succeeded reports
\* healthy also while the breaker of its adapter is open, and leaves the
\* breaker as it was.
C20_ProbesNotGated ==
    [][/\ (health = <<>> /\ ~use_mock_services) => ENABLED HealthBegin
       /\ health # <<>> => \A outcome \in ProbeOutcomes : ENABLED HealthProbe(outcome)
       /\ ProbeEnded
            => /\ result'.backend = "200" => result'.map[result'.intent] = "healthy"
               /\ result'.backend # "raises"
                    => result'.map[result'.intent] # "unavailable"
               /\ breaker'[result'.intent] = breaker[result'.intent]
      ]_vars

\* C20 witness: the order adapter was reported healthy while its breaker
\* was open and the cool-down had not elapsed.
C20_Witness ==
    /\ result.kind \in {"probe", "status"}
    /\ result.intent = "order"
    /\ result.map["order"] = "healthy"
    /\ breaker["order"].state = "open"
    /\ now - breaker["order"].last_failure_time[1] < timeout

\* The services whose probe get_health_status has sent so far.
ProbesStarted == DOMAIN health[1].status \cup {Head(health[1].todo)}

\* C21: get_health_status starts the probes of all registered services
\* before it waits for the end of any of them: while it is suspended on a
\* probe, every service's probe has been sent.
C21_ProbesConcurrent ==
    health # <<>> => ProbesStarted = Services

----------------------------------------------------------------------------
(* Circuit breaker claims, continued *)

\* An operation of adapter s began in this step and its wrapped request
\* function raised.
WrappedRaised(s) == EndedAtOnce(s) /\ ret'.response.error = "TypeError"

\* C22: when the trial call of a breaker (open with the cool-down over, or
\* half-open) raises, the breaker is open at the end of the call with
\* last_failure_time the time of that failure; last_failure_time changes in
\* no other step, and on an open breaker every call made before a full
\* cool-down has passed since last_failure_time is rejected.
C22_FailedTrialReopens ==
    [][\A s \in Services :
        /\ (breaker[s].state \in {"open", "half-open"} /\ WrappedRaised(s))
                => /\ breaker'[s].state = "open"
                   /\ breaker'[s].last_failure_time = <<now>>
        /\ breaker'[s].last_failure_time # breaker[s].last_failure_time
                => WrappedRaised(s)
        /\ ( /\ breaker[s].state = "open"
             /\ now - breaker[s].last_failure_time[1] < timeout
             /\ (EndedAtOnce(s) \/ \E c \in Callers : Dispatched(c, s)) )
                => (IsRejection(ret') /\ breaker'[s] = breaker[s])
      ]_vars

\* C22 witness: the trial made after the cool-down raised, and the call
\* that followed it at once was rejected by the breaker, open again since
\* the time of the failed trial.
C22_Witness ==
    \E s \in Services :
        /\ breaker[s].state = "open"
        /\ breaker[s].failure_count > failure_threshold
        /\ now > timeout
        /\ breaker[s].last_failure_time = <<now>>
        /\ IsRejection(ret)
        /\ Service(ret.op) = s

\* C27: a call the open breaker rejects leaves the breaker as it was: the
\* state, the failure count and last_failure_time after the rejection are
\* those before it, so the time at which the breaker admits a call again
\* does not move.
C27_RejectionChangesNothing ==
    [][\A s \in Services :
        (EndedAtOnce(s) /\ IsRejection(ret'))
            => /\ breaker'[s].state = breaker[s].state
               /\ breaker'[s].failure_count = breaker[s].failure_count
               /\ breaker'[s].last_failure_time = breaker[s].last_failure_time
               /\ \A d \in ClockSteps :
                    BreakerAdmits(breaker'[s], now + d) = BreakerAdmits(breaker[s], now + d)
      ]_vars

\* C27 witness: a mutating call was rejected 30 seconds after the failure
\* that opened the breaker, and last_failure_time is still the time of
\* that failure.
C27_Witness ==
    \E s \in Services :
        /\ IsRejection(ret)
        /\ ret.kind = "raised"
        /\ Service(ret.op) = s
        /\ breaker[s].state = "open"
        /\ breaker[s].failure_count = failure_threshold
        /\ breaker[s].last_failure_time = <<now - 30>>

\* C28: the state of every breaker is closed, open or half-open, and a
\* breaker that is open or half-open has a failure count of at least
\* failure_threshold and a last_failure_time, so that the gate can always
\* compare the cool-down.
C28_BreakerInvariant ==
    \A s \in Services :
        /\ breaker[s].state \in {"closed", "open", "half-open"}
        /\ breaker[s].state \in {"open", "half-open"}
                => /\ breaker[s].failure_count >= failure_threshold
                   /\ breaker[s].last_failure_time # <<>>
                   /\ breaker[s].last_failure_time[1] \in 0..now

\* C28 witness: a breaker is half-open, the cool-down over and its trial
\* call suspended on the request.
C28_Witness ==
    \E s \in Services :
        /\ TrialPending(s)
        /\ breaker[s].failure_count >= failure_threshold
        /\ now - breaker[s].last_failure_time[1] > timeout

\* The breaker of adapter s, open or half-open, is closed by this step.
Closes(s) == breaker[s].state # "closed" /\ breaker'[s].state = "closed"

\* C30: a breaker is closed only by the end of a network request that the
\* backend answered successfully: not by a call answered from the cache,
\* and not by a request that ended in a timeout, a connection error or a
\* non-200 status.
C30_ClosedOnlyByLiveSuccess ==
    [][\A s \in Services :
        Closes(s) => (CarriesData(ret') /\ \E c \in Callers : Completed(c, s))
      ]_vars

\* The second half of C30 alone: a trial answered from the cache leaves the
\* breaker open or half-open.
CacheHitNeverCloses ==
    [][\A s \in Services :
        Closes(s) => \E c \in Callers : Completed(c, s)
      ]_vars

----------------------------------------------------------------------------
(* Recovery of a breaker: calls keep arriving and time keeps passing *)

\* The cool-down of the open breaker of the adapter passes; nadv counts
\* the cool-downs up to MaxCoolDowns.
ElapseCoolDown ==
    /\ breaker[adapter].state = "open"
    /\ ~CoolDownElapsed(breaker[adapter], now)
    /\ now' = now + timeout + 1
    /\ nadv' = IF nadv < MaxCoolDowns THEN nadv + 1 ELSE nadv
    /\ ret' = NoReturn
    /\ UNCHANGED <<breaker, cache, inflight, consec, adapter>>

\* The wrapped request function of the adapter raised in this step.
WrappedRaisedStep == consec'[adapter] > consec[adapter]

\* A coroutine calls an operation of the adapter.  The dependency has
\* recovered once MaxCoolDowns cool-downs have passed: no request function
\* raises from then on.
CallArrives ==
    \E c \in Callers, op \in Ops : \E arg \in OpArgs(op) :
        /\ AdapterCall(c, op, arg)
        /\ WrappedRaisedStep => nadv < MaxCoolDowns
        /\ UNCHANGED <<ivars, xvars>>

\* The ends of a request the recovery is followed with: an answer and none.
RecoveryOutcomes == {"200", "timeout"}

\* A network request ends: every request has a total timeout.
RequestEnds ==
    \E c \in Callers, outcome \in RecoveryOutcomes :
        Complete(c, outcome) /\ UNCHANGED <<ivars, xvars>>

\* The order adapter, idle, its breaker closed.
InitRecovery ==
    /\ now = 0
    /\ breaker = [s \in Services |-> NewBreaker]
    /\ cache = [s \in Services |-> <<>>]
    /\ inflight = [c \in Callers |-> <<>>]
    /\ ret = NoReturn
    /\ consec = [s \in Services |-> 0]
    /\ adapter = "order"
    /\ nadv = 0
    /\ use_mock_services = FALSE
    /\ request = [c \in Callers |-> <<>>]
    /\ result = NoResult
    /\ health = <<>>
    /\ settings = LiveSettings
    /\ XIdle

NextRecovery ==
    \/ CallArrives
    \/ RequestEnds
    \/ ElapseCoolDown /\ UNCHANGED <<ivars, xvars>>

\* Calls keep arriving, requests end, and the cool-down of an open breaker
\* passes.
SpecRecovery ==
    /\ InitRecovery
    /\ [][NextRecovery]_vars
    /\ WF_vars(CallArrives)
    /\ WF_vars(RequestEnds)
    /\ WF_vars(ElapseCoolDown /\ UNCHANGED <<ivars, xvars>>)

\* C29: if from some point on no call through the breaker raises, while
\* calls keep arriving and the cool-down passes, then from some point on
\* the breaker is closed for good.
C29_EventuallyClosed ==
    <>[][~WrappedRaisedStep]_vars => <>[](breaker[adapter].state = "closed")

\* C29 witness: a breaker that had been opened by five failures, and again
\* by the failure of a trial, is closed with its failure count reset.
C29_Witness ==
    /\ breaker[adapter].state = "closed"
    /\ breaker[adapter].failure_count = 0
    /\ breaker[adapter].last_failure_time # <<>>
    /\ now > 2 * timeout

----------------------------------------------------------------------------
(* BaseService._get_cache_key as a function of its arguments *)

\* Endpoints of get_order: "/orders/" and the order number the caller
\* passed, the last one an order number with the text of a query in it.
KeyEndpoints ==
    { <<"/", "orders", "/", "A1">>,
      <<"/", "orders", "/", "B2">>,
      <<"/", "orders", "/", "A1", "?", "{", "\"", "customer_id", "\"", ":", " ",
        "\"", "c1", "\"", "}">> }

\* Params dicts json.dumps has an encoding for: none, one item, the same two
\* items inserted in either order, a str with quotes in it, a str and an int
\* of the same digits.
KeyParams ==
    { <<>>,
      <<Item("customer_id", PyStr(<<"c1">>))>>,
      <<Item("customer_id", PyStr(<<"c2">>))>>,
      <<Item("a", PyStr(<<"x">>)), Item("b", PyStr(<<"y">>))>>,
      <<Item("b", PyStr(<<"y">>)), Item("a", PyStr(<<"x">>))>>,
      <<Item("a", PyStr(<<"x", "\"", ",", " ", "\"", "b", "\"", ":", " ", "\"", "y">>))>>,
      <<Item("a", PyStr(<<"10">>))>>,
      <<Item("a", PyInt("10"))>>,
      <<Item("query", PyStr(<<"q1">>)), Item("limit", PyInt("10"))>>,
      <<Item("limit", PyInt("10")), Item("query", PyStr(<<"q1">>))>> }

KeyRequests == [endpoint : KeyEndpoints, params : KeyParams]

\* The order adapter alone, idle, and nothing else called.
InitCacheKey ==
    /\ now = 0
    /\ breaker = [s \in Services |-> NewBreaker]
    /\ cache = [s \in Services |-> <<>>]
    /\ inflight = [c \in Callers |-> <<>>]
    /\ ret = NoReturn
    /\ consec = [s \in Services |-> 0]
    /\ adapter = "order"
    /\ nadv = 0
    /\ use_mock_services = FALSE
    /\ request = [c \in Callers |-> <<>>]
    /\ result = NoResult
    /\ health = <<>>
    /\ settings = LiveSettings
    /\ XIdle

\* self._get_cache_key(endpoint, params) on the adapter; the request and its
\* key are kept next to those of the call before.
GetCacheKeyCall(r) ==
    LET entry == [endpoint |-> r.endpoint, params |-> r.params,
                  key |-> GetCacheKey(BaseUrl(adapter), r.endpoint, r.params)]
    IN /\ keys' = IF keys = <<>> THEN <<entry>> ELSE <<keys[Len(keys)], entry>>
       /\ UNCHANGED <<contexts, answer, generated, settings>>

NextCacheKey ==
    \E r \in KeyRequests : GetCacheKeyCall(r) /\ UNCHANGED <<avars, ivars>>

SpecCacheKey == InitCacheKey /\ [][NextCacheKey]_vars

\* The name/value pairs of a params dict.
ItemSet(params) == {params[i] : i \in DOMAIN params}

\* Two requests of one adapter with the same endpoint and the same parameters.
SameRequest(r1, r2) ==
    r1.endpoint = r2.endpoint /\ ItemSet(r1.params) = ItemSet(r2.params)

\* C23: two requests to one adapter with the same endpoint and the same
\* name/value pairs, in whatever order, get the same cache key, and two
\* requests that differ in the endpoint or in a parameter get different keys.
C23_KeyOfLogicalRequest ==
    Len(keys) = 2 =>
        (SameRequest(keys[1], keys[2]) <=> keys[1].key = keys[2].key)

\* The first half of C23 alone: the order of the parameters never matters.
KeyIgnoresOrder ==
    Len(keys) = 2 =>
        (SameRequest(keys[1], keys[2]) => keys[1].key = keys[2].key)

\* The second half of C23 for requests to one endpoint.
KeyTellsParamsApart ==
    (Len(keys) = 2 /\ keys[1].endpoint = keys[2].endpoint) =>
        (keys[1].key = keys[2].key => SameRequest(keys[1], keys[2]))

----------------------------------------------------------------------------
(* ContextManager over the in-memory store (src/modules/context.py) *)

\* Settings.MAX_CONTEXT_HISTORY: the turns update_context keeps (a
\* deployment setting, 10 by default; the model runs with a small one).
MAX_CONTEXT_HISTORY == 2

\* The number of turns up to which a session is followed.
MaxTurns == 3

\* The session ids the callers use.
Sessions == {"s1"}

\* Python's truth value of an Optional[str] argument: None and "" are false.
Truthy(s) == s \notin {"None", ""}

\* The dicts callers pass as metadata.
MetadataDicts == { ("source" :> "web"), ("channel" :> "app") }

\* The updates dict of update_context.  A key is <<>> when the dict does not
\* have it and holds its value otherwise; metadata is <<"None">> for the
\* value None and <<"dict", d>> for a dict d.
Updates ==
    [customer_id : {<<>>, <<"c1">>},
     last_intent : {<<>>, <<"track_order">>},
     metadata : {<<>>, <<"None">>} \cup {<<"dict", d>> : d \in MetadataDicts},
     turn_count : {<<>>, <<0>>}]

Has(updates, key) == updates[key] # <<>>

\* The user_message and bot_response arguments of update_context.
UserMessages == {"None", "", "m1"}
BotResponses == {"None", "r1"}

\* SessionContext(session_id, created_at=now, last_updated=now,
\* customer_profile=CustomerProfile(), conversation_history=[])
NewSessionContext(t) ==
    [created_at |-> t, last_updated |-> t, customer_id |-> "None",
     conversation_history |-> <<>>, current_intent |-> "None",
     context_variables |-> <<>>, metadata |-> <<>>, turn_count |-> 0]

\* MemoryContextStorage.get: <<>> for None.
StorageGet(store, session_id) ==
    IF session_id \in DOMAIN store THEN <<store[session_id]>> ELSE <<>>

\* MemoryContextStorage.set
StorageSet(store, session_id, context) == (session_id :> context) @@ store

\* MemoryContextStorage.delete: the store without the session.
StorageDelete(store, session_id) ==
    [s \in DOMAIN store \ {session_id} |-> store[s]]

\* The ConversationTurn update_context builds.
ConversationTurn(updates, user_message, bot_response, t) ==
    [timestamp |-> t, user_message |-> user_message, bot_response |-> bot_response,
     intent |-> IF Has(updates, "last_intent") THEN updates.last_intent[1] ELSE "unknown"]

\* SessionContext.add_turn
AddTurn(context, turn, t) ==
    [context EXCEPT !.conversation_history = Append(@, turn),
                    !.turn_count = @ + 1,
                    !.last_updated = t,
                    !.current_intent = turn.intent]

\* The loop over updates.items(): a key that names an attribute of
\* SessionContext (metadata, turn_count) is assigned to it, any other key
\* (customer_id, last_intent) goes to context_variables.
SetFields(context, updates) ==
    [context EXCEPT
        !.metadata = IF Has(updates, "metadata") THEN updates.metadata[2] ELSE @,
        !.turn_count = IF Has(updates, "turn_count") THEN updates.turn_count[1] ELSE @,
        !.context_variables =
            [k \in DOMAIN @ \cup {k \in {"customer_id", "last_intent"} : Has(updates, k)} |->
                IF Has(updates, k) THEN updates[k][1] ELSE @[k]]]

\* conversation_history[-max_history:] when the history is longer.
TrimHistory(history) ==
    IF Len(history) > MAX_CONTEXT_HISTORY
    THEN SubSeq(history, Len(history) - MAX_CONTEXT_HISTORY + 1, Len(history))
    ELSE history

\* context.metadata.update(None) raises TypeError.
UpdateRaises(updates) == updates.metadata = <<"None">>

\* The SessionContext object when update_context raises: the profile was
\* written already.
ContextAtRaise(context, updates) ==
    IF Has(updates, "customer_id")
    THEN [context EXCEPT !.customer_id = updates.customer_id[1]]
    ELSE context

\* The SessionContext update_context stores when it does not raise.
UpdatedContext(context, updates, user_message, bot_response, t) ==
    LET c1 == ContextAtRaise(context, updates)
        c2 == IF Has(updates, "metadata")
              THEN [c1 EXCEPT !.metadata = updates.metadata[2] @@ @]
              ELSE c1
        c3 == IF Truthy(user_message) /\ Truthy(bot_response)
              THEN AddTurn(c2, ConversationTurn(updates, user_message, bot_response, t), t)
              ELSE c2
        c4 == SetFields(c3, updates)
    IN [c4 EXCEPT !.conversation_history = TrimHistory(@), !.last_updated = t]

\* The dict get_context returns for a stored SessionContext.
ContextView(session_id, context) ==
    [session_id |-> session_id,
     customer_id |-> context.customer_id,
     turn_count |-> context.turn_count,
     last_intent |-> context.current_intent,
     conversation_history |->
        LET h == context.conversation_history
            recent == IF Len(h) > 3 THEN SubSeq(h, Len(h) - 2, Len(h)) ELSE h
        IN [i \in DOMAIN recent |-> recent[i].user_message],
     context_variables |-> context.context_variables,
     metadata |-> context.metadata]

\* The ContextManager after initialize with CONTEXT_STORAGE_TYPE "memory":
\* an empty store, and the integration layer idle.
InitContext == InitCacheKey

\* get_context: the session is created and stored when the store has none.
GetContext(session_id) ==
    LET found == StorageGet(contexts, session_id)
        context == IF found = <<>> THEN NewSessionContext(now) ELSE found[1]
    IN /\ contexts' = IF found = <<>>
                      THEN StorageSet(contexts, session_id, context)
                      ELSE contexts
       /\ answer' = [kind |-> "get_context", session_id |-> session_id,
                     value |-> ContextView(session_id, context)]
       /\ UNCHANGED <<keys, generated, settings>>

\* update_context.  The store hands out the SessionContext object itself,
\* so what was written to it before an exception stays written; a context
\* created by this call is stored only by the set at the end.
UpdateContext(session_id, updates, user_message, bot_response) ==
    LET found == StorageGet(contexts, session_id)
        context == IF found = <<>> THEN NewSessionContext(now) ELSE found[1]
    IN /\ context.turn_count < MaxTurns
       /\ contexts' =
            IF UpdateRaises(updates)
            THEN IF found = <<>>
                 THEN contexts
                 ELSE StorageSet(contexts, session_id, ContextAtRaise(context, updates))
            ELSE StorageSet(contexts, session_id,
                    UpdatedContext(context, updates, user_message, bot_response, now))
       /\ answer' = [kind |-> "update_context", session_id |-> session_id,
                     updates |-> updates, user_message |-> user_message,
                     bot_response |-> bot_response]
       /\ UNCHANGED <<keys, generated, settings>>

\* ClearContext with the result of the delete turned around.
ClearContext_Negated(session_id) ==
    /\ contexts' = StorageDelete(contexts, session_id)
    /\ answer' = [kind |-> "clear_context", session_id |-> session_id,
                  value |-> session_id \notin DOMAIN contexts]
    /\ UNCHANGED <<keys, generated, settings>>

\* clear_context: what MemoryContextStorage.delete returns.
ClearContext(session_id) ==
    /\ contexts' = StorageDelete(contexts, session_id)
    /\ answer' = [kind |-> "clear_context", session_id |-> session_id,
                  value |-> session_id \in DOMAIN contexts]
    /\ UNCHANGED <<keys, generated, settings>>

NextContext ==
    \/ \E session_id \in Sessions :
            GetContext(session_id) /\ UNCHANGED <<avars, ivars>>
    \/ \E session_id \in Sessions, updates \in Updates :
       \E user_message \in UserMessages, bot_response \in BotResponses :
            UpdateContext(session_id, updates, user_message, bot_response)
                /\ UNCHANGED <<avars, ivars>>
    \/ \E session_id \in Sessions :
            ClearContext(session_id) /\ UNCHANGED <<avars, ivars>>

SpecContext == InitContext /\ [][NextContext]_vars

----------------------------------------------------------------------------
(* Context claims *)

\* The SessionContext a call on the session finds: the stored one, or the
\* fresh one it creates.
Found(store, session_id, t) ==
    IF session_id \in DOMAIN store THEN store[session_id] ELSE NewSessionContext(t)

\* h2 is h1 with one turn appended, cut to the turns the store keeps.
OneTurnAppended(h1, h2, user_message, bot_response) ==
    /\ h2 # <<>>
    /\ h2[Len(h2)].user_message = user_message
    /\ h2[Len(h2)].bot_response = bot_response
    /\ LET front == SubSeq(h2, 1, Len(h2) - 1)
       IN \/ front = h1
          \/ Len(h2) = MAX_CONTEXT_HISTORY
                /\ front = SubSeq(h1, Len(h1) - Len(front) + 1, Len(h1))

\* What C24 says of one update_context call, given the store before and
\* after; an empty message counts as no message.
TurnAdded(call, before, store) ==
    LET sid == call.session_id
        after == Found(store, sid, now)
    IN IF Truthy(call.user_message) /\ Truthy(call.bot_response)
       THEN /\ sid \in DOMAIN store
            /\ after.turn_count = before.turn_count + 1
            /\ OneTurnAppended(before.conversation_history, after.conversation_history,
                               call.user_message, call.bot_response)
            /\ Has(call.updates, "last_intent")
                    => ContextView(sid, after).last_intent = call.updates.last_intent[1]
            /\ Has(call.updates, "customer_id")
                    => ContextView(sid, after).customer_id = call.updates.customer_id[1]
       ELSE /\ after.turn_count = before.turn_count
            /\ after.conversation_history = before.conversation_history

\* C24: an update_context call given a user_message and a bot_response
\* appends one turn to the history of the session and adds 1 to its
\* turn_count, and get_context then reports the last_intent and the
\* customer_id of the update; a call without one of the two leaves
\* turn_count and the history as they were.
C24_UpdateAddsOneTurn ==
    [][answer'.kind = "update_context"
            => TurnAdded(answer', Found(contexts, answer'.session_id, now), contexts')
      ]_vars

\* The updates for which C24 holds: no key that names a field of
\* SessionContext and no metadata of None.
PlainCall(call) ==
    /\ ~Has(call.updates, "turn_count")
    /\ ~UpdateRaises(call.updates)

UpdateAddsOneTurnWhenPlain ==
    [][(answer'.kind = "update_context" /\ PlainCall(answer'))
            => TurnAdded(answer', Found(contexts, answer'.session_id, now), contexts')
      ]_vars

\* C25: clear_context returns true exactly when the store held the session,
\* and the session is gone afterwards; a get_context that finds no session
\* stores and reports a new one, with turn_count 0 and an empty history.
C25_ClearThenFresh ==
    [][/\ answer'.kind = "clear_context"
            => /\ answer'.value = (answer'.session_id \in DOMAIN contexts)
               /\ answer'.session_id \notin DOMAIN contexts'
       /\ (answer'.kind = "get_context" /\ answer'.session_id \notin DOMAIN contexts)
            => /\ answer'.value.turn_count = 0
               /\ answer'.value.conversation_history = <<>>
               /\ contexts'[answer'.session_id] = NewSessionContext(now)
      ]_vars

\* C25 witness: clear_context returned true, for a session the store held
\* and holds no more.
C25_Witness ==
    /\ answer.kind = "clear_context"
    /\ answer.value
    /\ answer.session_id \notin DOMAIN contexts

----------------------------------------------------------------------------
(* ResponseGenerator.generate_response (src/modules/response.py) *)

\* Settings.CONFIDENCE_THRESHOLD, 0.7, in hundredths like every confidence
\* of the model.
CONFIDENCE_THRESHOLD == 70

\* The intents _generate_intent_response tells apart, and one it does not.
ResponseIntents ==
    {"track_order", "product_info", "inventory_check", "store_locator", "pricing",
     "complaint", "shipping_info", "account_help", "general_inquiry"}

\* Confidences below, at and above the threshold.
Confidences == {0, 30, 69, 70, 100}

\* The context dict as far as _should_escalate reads it: turn_count, and
\* whether last_message or conversation_history has an escalation keyword.
ResponseContexts == [turn_count : {0, 5, 6}, has_keyword : BOOLEAN]

\* _should_escalate
ShouldEscalate(intent, context) ==
    \/ intent \in {"complaint", "account_help"}
    \/ context.has_keyword
    \/ context.turn_count > 5

\* The map a branch of generate_response returns: the template of the
\* response text, escalate_to_human and the other keys of the map.
ResponseMap(template, escalate_to_human, others) ==
    [response |-> template, escalate_to_human |-> escalate_to_human, others |-> others]

\* _generate_clarification_response
ClarificationResponse == ResponseMap("clarification", FALSE, {"requires_clarification"})

\* _generate_escalation_response
EscalationResponse == ResponseMap("escalation", TRUE, {})

\* generate_response with entities and backend_data empty: no handler raises.
GenerateResponseMap(intent, context, confidence) ==
    IF confidence < CONFIDENCE_THRESHOLD
    THEN ClarificationResponse
    ELSE IF ShouldEscalate(intent, context)
         THEN EscalationResponse
         ELSE ResponseMap(intent, ShouldEscalate(intent, context), {"suggested_actions"})

\* One call of generate_response.
GenerateResponse(intent, context, confidence) ==
    /\ generated' = [kind |-> "generate_response", intent |-> intent,
                     context |-> context, confidence |-> confidence,
                     value |-> GenerateResponseMap(intent, context, confidence)]
    /\ UNCHANGED <<keys, contexts, answer, settings>>

\* A ResponseGenerator, and nothing else called.
InitResponse == InitCacheKey

NextResponse ==
    \E intent \in ResponseIntents, context \in ResponseContexts, confidence \in Confidences :
        GenerateResponse(intent, context, confidence) /\ UNCHANGED <<avars, ivars>>

SpecResponse == InitResponse /\ [][NextResponse]_vars

\* C26: for every intent generate_response returns escalate_to_human = true
\* when the confidence is below CONFIDENCE_THRESHOLD, and it returns
\* escalate_to_human = true for the complaint intent.
C26_EscalatesOnLowConfidence ==
    generated.kind = "generate_response" =>
        /\ generated.confidence < CONFIDENCE_THRESHOLD => generated.value.escalate_to_human
        /\ generated.intent = "complaint" => generated.value.escalate_to_human

\* Above the threshold generate_response escalates exactly when
\* _should_escalate says so, complaints always.
EscalatesWhenConfident ==
    (generated.kind = "generate_response" /\ generated.confidence >= CONFIDENCE_THRESHOLD)
        => /\ generated.value.escalate_to_human
                = ShouldEscalate(generated.intent, generated.context)
           /\ generated.intent = "complaint" => generated.value.escalate_to_human

----------------------------------------------------------------------------
(* Cancellation of a call through the breaker *)

\* BreakerOnCancel of a breaker whose except clause caught BaseException.
BreakerOnCancel_CountsFailure(b, t) == BreakerOnFailure(b, t)

\* asyncio.CancelledError raised at the await of call: it is a
\* BaseException, which `except Exception` does not catch, so neither branch
\* of call runs and the breaker stays as the gate left it.
BreakerOnCancel(b, t) == b

\* What the caller of a cancelled operation gets: CancelledError, which no
\* except clause of the adapter catches.
OnCancelled(op, arg) ==
    [kind |-> "cancelled", op |-> op, arg |-> arg,
     response |-> APIResponse(FALSE, "None", "CancelledError", "None", FALSE)]

\* The caller abandons the operation coroutine c is suspended in: the
\* network request is dropped before its answer is read.
Cancel(c) ==
    /\ inflight[c] # <<>>
    /\ LET op == inflight[c][1].op
           s == Service(op)
       IN /\ breaker' = [breaker EXCEPT ![s] = BreakerOnCancel(@, now)]
          /\ ret' = OnCancelled(op, inflight[c][1].arg)
    /\ inflight' = [inflight EXCEPT ![c] = <<>>]
    /\ UNCHANGED <<now, cache, consec, adapter, nadv>>

\* The caller abandons an operation before its coroutine has run its first
\* step: no line of the operation, and so none of call, is executed.
CancelUnstarted(c, op, arg) ==
    /\ CanBegin(c, Service(op))
    /\ ret' = OnCancelled(op, arg)
    /\ UNCHANGED <<now, breaker, cache, inflight, consec, adapter, nadv>>

\* The operations of the order adapter, with callers that may abandon them.
NextCancel ==
    \/ \E c \in Callers, op \in Ops : \E arg \in OpArgs(op) :
            AdapterCall(c, op, arg) /\ UNCHANGED <<ivars, xvars>>
    \/ \E c \in Callers, outcome \in Outcomes :
            Complete(c, outcome) /\ UNCHANGED <<ivars, xvars>>
    \/ \E c \in Callers :
            Cancel(c) /\ UNCHANGED <<ivars, xvars>>
    \/ \E c \in Callers, op \in Ops : \E arg \in OpArgs(op) :
            CancelUnstarted(c, op, arg) /\ UNCHANGED <<ivars, xvars>>
    \/ \E d \in ClockSteps :
            Advance(d) /\ UNCHANGED <<ivars, xvars>>

SpecCancel == InitRecovery /\ [][NextCancel]_vars

\* C31: the cancellation of a call is not counted as a failure: when a
\* caller abandons a call pending on its request, and when it abandons a
\* call that was never started, the state, the failure count and the
\* last_failure_time of the breaker and the number of failures in a row
\* are after the step what they were before it, and so is the cache.
C31_CancellationNotCounted ==
    [][ret'.kind = "cancelled"
            => /\ breaker' = breaker
               /\ consec' = consec
               /\ cache' = cache
               /\ \A c \in Callers : inflight'[c] # <<>> => inflight'[c] = inflight[c]
      ]_vars

\* C31 witness: the trial call of a breaker opened by five failures was
\* abandoned while pending: the breaker is half-open still, with the
\* failure count the fifth failure left.
C31_Witness ==
    /\ ret.kind = "cancelled"
    /\ breaker[adapter].state = "half-open"
    /\ breaker[adapter].failure_count = failure_threshold
    /\ consec[adapter] = failure_threshold
    /\ \A c \in Callers : inflight[c] = <<>>

----------------------------------------------------------------------------
(* The cache of an adapter, next to the adapter's own health_check *)

\* The key a GET of /health without params would be cached under.
HealthKey(s) == GetCacheKey(BaseUrl(s), <<"/", "health">>, <<>>)

\* What health_check gives its caller, as a result of the adapter: the
\* ServiceStatus in data.
OnHealthCheck(outcome) ==
    [kind |-> "health", op |-> "health_check", arg |-> "none",
     response |-> APIResponse(outcome = "200", HealthCheck(outcome), "None", "None", FALSE)]

\* health_check of the adapter: _make_request("GET", "/health",
\* use_cache=False), called outside the breaker; the step is the end of its
\* request, the only point at which the probe can touch the adapter.
HealthCheckEnds(outcome) ==
    /\ cache' = [cache EXCEPT ![adapter] =
            CacheAfter(@, "GET", FALSE, HealthKey(adapter), outcome, now)]
    /\ ret' = OnHealthCheck(outcome)
    /\ UNCHANGED <<now, breaker, inflight, consec, adapter, nadv>>

\* The operations and the health_check of one adapter.
NextCache ==
    \/ \E c \in Callers, op \in Ops : \E arg \in OpArgs(op) :
            AdapterCall(c, op, arg) /\ UNCHANGED <<ivars, xvars>>
    \/ \E c \in Callers, outcome \in Outcomes :
            Complete(c, outcome) /\ UNCHANGED <<ivars, xvars>>
    \/ \E outcome \in ProbeOutcomes :
            HealthCheckEnds(outcome) /\ UNCHANGED <<ivars, xvars>>
    \/ \E d \in ClockSteps :
            Advance(d) /\ UNCHANGED <<ivars, xvars>>

\* An adapter with a mutating operation or one with two cacheable requests,
\* idle, its cache empty.
InitCache ==
    /\ now = 0
    /\ breaker = [s \in Services |-> NewBreaker]
    /\ cache = [s \in Services |-> <<>>]
    /\ inflight = [c \in Callers |-> <<>>]
    /\ ret = NoReturn
    /\ consec = [s \in Services |-> 0]
    /\ adapter \in {"order", "product"}
    /\ nadv = 0
    /\ use_mock_services = FALSE
    /\ request = [c \in Callers |-> <<>>]
    /\ result = NoResult
    /\ health = <<>>
    /\ settings = LiveSettings
    /\ XIdle

SpecCache == InitCache /\ [][NextCache]_vars

\* The step wrote the entry of `key` in the cache of adapter s, at the
\* current time, and no other entry.
WroteEntry(s, key) ==
    /\ DOMAIN cache'[s] = DOMAIN cache[s] \cup {key}
    /\ cache'[s][key] = [data |-> "body", timestamp |-> now]
    /\ \A k \in DOMAIN cache[s] \ {key} : cache'[s][k] = cache[s][k]

\* The cache keys of the GET operations, each with its adapter.
GetKeys ==
    UNION {{[service |-> Service(op), key |-> KeyOf(op, arg)] : arg \in OpArgs(op) \ {"bad"}} :
                op \in {o \in Ops : Method(o) = "GET"}}

\* C32: the cache of an adapter changes only at the end of a GET request
\* made with caching enabled that the backend answered with status 200,
\* and then by the entry of that request alone; a request that failed, timed
\* out or got another status, a health probe and a PUT or POST leave the
\* cache as it was, so every entry is the body of a 200 answer to a GET
\* operation.
C32_OnlySuccessfulGetWrites ==
    [][\A s \in Services :
        /\ cache'[s] # cache[s]
            => \E c \in Callers :
                    /\ Completed(c, s)
                    /\ Method(inflight[c][1].op) = "GET"
                    /\ CarriesData(ret')
                    /\ WroteEntry(s, KeyOf(inflight[c][1].op, inflight[c][1].arg))
        /\ ret'.kind = "health" => cache' = cache
        /\ \A c \in Callers :
                (Completed(c, s) /\ (Method(inflight[c][1].op) # "GET" \/ ~CarriesData(ret')))
                    => cache' = cache
        /\ \A k \in DOMAIN cache'[s] :
                cache'[s][k].data = "body" /\ [service |-> s, key |-> k] \in GetKeys
      ]_vars

\* C32 witness: a health probe answered with 200 has ended, the cache of
\* the adapter holds the entry of an earlier GET and none for the probe.
C32_Witness ==
    /\ ret.kind = "health"
    /\ ret.response.success
    /\ cache[adapter] # <<>>
    /\ HealthKey(adapter) \notin DOMAIN cache[adapter]

\* C33: no step removes a key from the cache of an adapter, and an entry
\* changes only when a GET request for its key ends with status 200, which
\* stores it anew with the current time; an entry as old as the ttl or
\* older stays in the map until then.
C33_CacheNeverEvicts ==
    [][\A s \in Services :
        /\ DOMAIN cache[s] \subseteq DOMAIN cache'[s]
        /\ \A k \in DOMAIN cache[s] :
                cache'[s][k] # cache[s][k]
                    => /\ cache'[s][k].timestamp = now
                       /\ CarriesData(ret')
                       /\ \E c \in Callers :
                            /\ Completed(c, s)
                            /\ KeyOf(inflight[c][1].op, inflight[c][1].arg) = k
      ]_vars

\* C33 witness: the cache holds two entries, one of them as old as the ttl,
\* and the request sent to refresh the old one has just failed.
C33_Witness ==
    \E k \in DOMAIN cache[adapter] :
        /\ now - cache[adapter][k].timestamp >= cache_ttl
        /\ DOMAIN cache[adapter] # {k}
        /\ ret.kind # "none"
        /\ ret.op \in Ops
        /\ KeyOf(ret.op, ret.arg) = k
        /\ ~ret.response.success
        /\ ret.response.error \in {"Request timeout", "HTTP 500", "Client error"}

----------------------------------------------------------------------------
(* Adapter claims, continued *)

----------------------------------------------------------------------------
(* BackendIntegrator.initialize as a function of the settings *)

\* What initialize leaves: the registry self.services.
Initialized(registry) ==
    [kind |-> "initialized", intent |-> "none", entities |-> NoEntities,
     backend |-> "none", map |-> registry]

\* BackendIntegrator(settings): use_mock_services is False, nothing is
\* registered and nothing has been called.
InitInitialize ==
    /\ now = 0
    /\ breaker = [s \in Services |-> NewBreaker]
    /\ cache = [s \in Services |-> <<>>]
    /\ inflight = [c \in Callers |-> <<>>]
    /\ ret = NoReturn
    /\ consec = [s \in Services |-> 0]
    /\ adapter = "order"
    /\ nadv = 0
    /\ settings \in SettingsSpace
    /\ use_mock_services = FALSE
    /\ request = [c \in Callers |-> <<>>]
    /\ result = NoResult
    /\ health = <<>>
    /\ XIdle

\* initialize: the flag is set when the test says so and left otherwise,
\* and the registry is filled according to the flag.
Initialize ==
    /\ use_mock_services' = IF SelectsMock(settings) THEN TRUE ELSE use_mock_services
    /\ result' = Initialized(services(use_mock_services'))
    /\ UNCHANGED <<request, health>>

NextInitialize ==
    Initialize /\ UNCHANGED <<avars, xvars>>

SpecInitialize == InitInitialize /\ [][NextInitialize]_vars

\* Some service has no live base URL: the setting is empty or the default
\* placeholder.
AnyUnconfigured(config) ==
    \E s \in Services : BaseUrlSetting(config, s) \in {<<>>, DefaultUrl(s)}

\* The registry has one adapter object of its own for every service name.
FourLiveAdapters(registry) ==
    /\ DOMAIN registry = Services
    /\ \A s \in Services : registry[s] # "mock_service"
    /\ \A s, t \in Services : s # t => registry[s] # registry[t]

\* The registry has the mock adapter under every service name.
AllMock(registry) ==
    /\ DOMAIN registry = Services
    /\ \A s \in Services : registry[s] = "mock_service"

\* C35: after initialize the mock adapter is registered for all four
\* service names when the environment is development or the base URL of
\* any of the four services is empty or the default placeholder, and four
\* distinct live adapters are registered otherwise.
C35_MockWhenAnyUnconfigured ==
    result.kind = "initialized" =>
        IF settings.ENVIRONMENT = "development" \/ AnyUnconfigured(settings)
        THEN use_mock_services /\ AllMock(result.map)
        ELSE ~use_mock_services /\ FourLiveAdapters(result.map)

\* What initialize does decide by: the environment and the base URL of the
\* order service alone.
MockWhenOrderUnconfigured ==
    result.kind = "initialized" =>
        IF \/ settings.ENVIRONMENT = "development"
           \/ settings.ORDER_API_BASE_URL \in {<<>>, DefaultUrl("order")}
        THEN use_mock_services /\ AllMock(result.map)
        ELSE ~use_mock_services /\ FourLiveAdapters(result.map)

----------------------------------------------------------------------------
(* BackendIntegrator claims, continued *)

\* The keys of a store dict as find_stores returns it.
StoreKeys == {"name", "address", "phone", "hours", "distance"}

\* store.get(key, default): the default of name and address is a text,
\* that of the other keys is None.
StoreGet(store, key) ==
    IF key \in DOMAIN store
    THEN store[key]
    ELSE CASE key = "name" -> "Store"
           [] key = "address" -> "Address not available"
           [] OTHER -> "None"

\* The list comprehension of find_stores over response.data["stores"].
TransformStores(stores_data) ==
    [i \in DOMAIN stores_data |-> [key \in StoreKeys |-> StoreGet(stores_data[i], key)]]

\* Store dicts a backend answers with: the two of the mock dataset, one
\* without a name, one with a key find_stores does not read.
BackendStores ==
    { [name |-> "Downtown Store", address |-> "123 Main Street, Downtown",
       phone |-> "(555) 123-4567", hours |-> "Mon-Sat 9AM-9PM, Sun 10AM-6PM",
       distance |-> "0.5 miles"],
      [name |-> "Mall Location", address |-> "456 Shopping Center Dr",
       phone |-> "(555) 987-6543", hours |-> "Mon-Sat 10AM-10PM, Sun 11AM-7PM",
       distance |-> "2.3 miles"],
      [address |-> "1 Harbor Way", distance |-> "7.0 miles"],
      [name |-> "Outlet", address |-> "9 Mill Rd", phone |-> "(555) 000-0000",
       hours |-> "Daily 9AM-5PM", distance |-> "1.1 miles", manager |-> "n/a"] }

\* The lists of up to two of them, in every order.
BackendStoreLists ==
    {<<>>} \cup {<<a>> : a \in BackendStores}
           \cup {<<a, b>> : a \in BackendStores, b \in BackendStores}

\* The list find_stores returns has the length and the order of the
\* backend's list, every item with the five keys and the backend's values.
StoresKeepOrder ==
    \A l \in BackendStoreLists :
        /\ Len(TransformStores(l)) = Len(l)
        /\ \A i \in DOMAIN l :
              /\ DOMAIN TransformStores(l)[i] = StoreKeys
              /\ \A key \in StoreKeys \cap DOMAIN l[i] :
                    TransformStores(l)[i][key] = l[i][key]

\* What C36 says of a store_locator request that ended in this step:
\* find_stores ran, with the first location or 'current location', and a
\* backend answer of 200 comes back under the stores key.
FindStoresInvoked ==
    /\ result'.kind = "returned"
    /\ ret'.kind # "none"
    /\ ret'.op = "find_stores"
    /\ ret'.arg = FirstEntity("store_locator", result'.entities)
    /\ result'.backend = "200" => result'.map = [key |-> "stores", value |-> "found"]

\* C36: every store_locator request runs find_stores of the registered
\* store adapter once, with 'current location' when the entities name no
\* location, and returns the stores of the backend's answer under the
\* stores key.
C36_StoreLocatorFindsStores ==
    [][(result'.kind # "none" /\ result'.intent = "store_locator")
            => FindStoresInvoked
      ]_vars

\* C36 with the live adapters alone.
StoreLocatorFindsStoresLive ==
    [][(result'.kind # "none" /\ result'.intent = "store_locator" /\ ~use_mock_services)
            => FindStoresInvoked
      ]_vars

----------------------------------------------------------------------------
(* Context claims, continued *)

\* The update_context call added a turn: both texts were given.
GivenTurn(call) == Truthy(call.user_message) /\ Truthy(call.bot_response)

\* h2 holds the most recent turns of h1, in order: all of them when they
\* are at most MAX_CONTEXT_HISTORY, the last MAX_CONTEXT_HISTORY otherwise.
MostRecentOf(h1, h2) ==
    /\ Len(h2) <= MAX_CONTEXT_HISTORY
    /\ Len(h2) <= Len(h1)
    /\ Len(h2) < Len(h1) => Len(h2) = MAX_CONTEXT_HISTORY
    /\ h2 = SubSeq(h1, Len(h1) - Len(h2) + 1, Len(h1))

\* What C37 says of one update_context call, given the session before and
\* after it.
HistoryBounded(call, before, after) ==
    /\ Len(after.conversation_history) <= MAX_CONTEXT_HISTORY
    /\ IF GivenTurn(call)
       THEN /\ after.conversation_history # <<>>
            /\ after.conversation_history[Len(after.conversation_history)].user_message
                    = call.user_message
            /\ \E turn \in {after.conversation_history[Len(after.conversation_history)]} :
                    MostRecentOf(Append(before.conversation_history, turn),
                                 after.conversation_history)
            /\ after.turn_count = before.turn_count + 1
       ELSE /\ MostRecentOf(before.conversation_history, after.conversation_history)
            /\ after.turn_count = before.turn_count
    /\ after.turn_count >= Len(after.conversation_history)
    /\ after.turn_count >= before.turn_count

\* C37: after every update_context call the history of the session holds
\* at most MAX_CONTEXT_HISTORY turns, the most recent ones in their order,
\* and turn_count counts every turn ever added: it grows by one with each
\* turn, never decreases and is never below the length of the history.
C37_HistoryBounded ==
    [][(answer'.kind = "update_context" /\ ~UpdateRaises(answer'.updates))
            => HistoryBounded(answer',
                              Found(contexts, answer'.session_id, now),
                              Found(contexts', answer'.session_id, now))
      ]_vars

\* C37 for the calls whose updates have no key that names a field of
\* SessionContext, on a session whose turn_count no earlier call has set
\* below the length of its history.
HistoryBoundedWhenPlain ==
    [][(/\ answer'.kind = "update_context"
        /\ PlainCall(answer')
        /\ Found(contexts, answer'.session_id, now).turn_count
                >= Len(Found(contexts, answer'.session_id, now).conversation_history))
            => HistoryBounded(answer',
                              Found(contexts, answer'.session_id, now),
                              Found(contexts', answer'.session_id, now))
      ]_vars

\* The history was cut: a turn was added to a session that held
\* MAX_CONTEXT_HISTORY turns already.
HistoryTrimmed ==
    \E s \in DOMAIN contexts :
        /\ contexts[s].turn_count > MAX_CONTEXT_HISTORY
        /\ Len(contexts[s].conversation_history) = MAX_CONTEXT_HISTORY

\* What C38 says of one update_context call.
MetadataMerged(call, before, after) ==
    /\ DOMAIN before.metadata \subseteq DOMAIN after.metadata
    /\ \A k \in DOMAIN before.metadata :
            (Has(call.updates, "metadata") => k \notin DOMAIN call.updates.metadata[2])
                => after.metadata[k] = before.metadata[k]
    /\ Has(call.updates, "metadata")
            => \A k \in DOMAIN call.updates.metadata[2] :
                    k \in DOMAIN after.metadata
                        /\ after.metadata[k] = call.updates.metadata[2][k]

StructuralFieldsKept(call, before, after) ==
    /\ after.created_at = before.created_at
    /\ after.turn_count = before.turn_count + (IF GivenTurn(call) THEN 1 ELSE 0)
    /\ IF GivenTurn(call)
       THEN OneTurnAppended(before.conversation_history, after.conversation_history,
                            call.user_message, call.bot_response)
       ELSE after.conversation_history = before.conversation_history

\* C38: update_context merges the metadata of the update into the metadata
\* of the session: the keys stored by earlier updates and absent from this
\* one are still there with their values, next to the keys of this one;
\* and no key of the updates dict overwrites created_at, turn_count or
\* conversation_history.
C38_MetadataMerged ==
    [][(answer'.kind = "update_context" /\ ~UpdateRaises(answer'.updates))
            => /\ MetadataMerged(answer',
                                 Found(contexts, answer'.session_id, now),
                                 Found(contexts', answer'.session_id, now))
               /\ StructuralFieldsKept(answer',
                                 Found(contexts, answer'.session_id, now),
                                 Found(contexts', answer'.session_id, now))
      ]_vars

\* The first half of C38 alone.
MetadataMergedAlone ==
    [][(answer'.kind = "update_context" /\ ~UpdateRaises(answer'.updates))
            => MetadataMerged(answer',
                              Found(contexts, answer'.session_id, now),
                              Found(contexts', answer'.session_id, now))
      ]_vars

\* The second half of C38 alone.
StructuralFieldsKeptAlone ==
    [][(answer'.kind = "update_context" /\ ~UpdateRaises(answer'.updates))
            => StructuralFieldsKept(answer',
                              Found(contexts, answer'.session_id, now),
                              Found(contexts', answer'.session_id, now))
      ]_vars

\* C38 for the calls whose updates have neither metadata nor a key that
\* names another field of SessionContext.
FieldsKeptWithoutSuchKeys ==
    [][(answer'.kind = "update_context" /\ PlainCall(answer')
            /\ ~Has(answer'.updates, "metadata"))
            => /\ MetadataMerged(answer',
                                 Found(contexts, answer'.session_id, now),
                                 Found(contexts', answer'.session_id, now))
               /\ StructuralFieldsKept(answer',
                                 Found(contexts, answer'.session_id, now),
                                 Found(contexts', answer'.session_id, now))
      ]_vars

----------------------------------------------------------------------------
(* MemoryContextStorage.cleanup_expired, next to the calls of the ContextManager *)

\* Settings.CONTEXT_TTL_MINUTES
CONTEXT_TTL_MINUTES == 30

\* The ttl cleanup_expired is called with: the setting, as the cleanup
\* task passes it, and a ttl of one minute.
TtlMinutes == {1, CONTEXT_TTL_MINUTES}

\* The sessions followed through a cleanup.
CleanupSessions == {"s1", "s2"}

\* The time that passes between two calls: a ttl to the second, and one
\* second more.
ContextClockSteps == {60 * ttl : ttl \in TtlMinutes} \cup {60 * ttl + 1 : ttl \in TtlMinutes}

\* An updates dict without a key.
NoUpdates ==
    [customer_id |-> <<>>, last_intent |-> <<>>, metadata |-> <<>>, turn_count |-> <<>>]

\* Expired with the cutoff itself counted as expired.
Expired_Inclusive(context, ttl_minutes, t) ==
    context.last_updated <= t - 60 * ttl_minutes

\* context.last_updated < cutoff_time, the cutoff being
\* datetime.now() - timedelta(minutes=ttl_minutes)
Expired(context, ttl_minutes, t) ==
    context.last_updated < t - 60 * ttl_minutes

\* The session ids cleanup_expired collects.
ExpiredSessions(store, ttl_minutes, t) ==
    {s \in DOMAIN store : Expired(store[s], ttl_minutes, t)}

\* cleanup_expired.  The lock of the store is only ever held over code
\* without an await, so it is free whenever a coroutine asks for it: the
\* cutoff, the scan and the deletions are one step of the event loop.
CleanupExpired(ttl_minutes) ==
    LET expired_sessions == ExpiredSessions(contexts, ttl_minutes, now)
    IN /\ contexts' = [s \in DOMAIN contexts \ expired_sessions |-> contexts[s]]
       /\ answer' = [kind |-> "cleanup_expired", ttl_minutes |-> ttl_minutes,
                     value |-> Cardinality(expired_sessions)]
       /\ UNCHANGED <<keys, generated, settings>>

\* Time passes between two calls of the ContextManager.
ContextTick(d) ==
    /\ Advance(d)
    /\ answer' = NoAnswer
    /\ UNCHANGED <<keys, contexts, generated, settings>>

NextCleanup ==
    \/ \E session_id \in CleanupSessions :
            GetContext(session_id) /\ UNCHANGED <<avars, ivars>>
    \/ \E session_id \in CleanupSessions, user_message \in {"None", "m1"} :
            UpdateContext(session_id, NoUpdates, user_message, "r1")
                /\ UNCHANGED <<avars, ivars>>
    \/ \E session_id \in CleanupSessions :
            ClearContext(session_id) /\ UNCHANGED <<avars, ivars>>
    \/ \E ttl_minutes \in TtlMinutes :
            CleanupExpired(ttl_minutes) /\ UNCHANGED <<avars, ivars>>
    \/ \E d \in ContextClockSteps :
            ContextTick(d) /\ UNCHANGED ivars

SpecCleanup == InitContext /\ [][NextCleanup]_vars

\* C39: cleanup_expired(ttl) removes from the in-memory store exactly the
\* sessions whose last_updated is more than ttl minutes before the current
\* time, leaves every other session as it was and returns the number of
\* sessions it removed; a session updated within the ttl is never removed
\* by it, and a get, an update or a clear of one session removes no other.
C39_CleanupRemovesExpired ==
    [][/\ answer'.kind = "cleanup_expired"
            => LET old == {s \in DOMAIN contexts :
                            now - contexts[s].last_updated > 60 * answer'.ttl_minutes}
               IN /\ DOMAIN contexts' = DOMAIN contexts \ old
                  /\ \A s \in DOMAIN contexts' : contexts'[s] = contexts[s]
                  /\ answer'.value = Cardinality(old)
                  /\ \A s \in DOMAIN contexts :
                        now - contexts[s].last_updated <= 60 * answer'.ttl_minutes
                            => s \in DOMAIN contexts'
       /\ answer'.kind \in {"get_context", "update_context", "clear_context"}
            => \A s \in DOMAIN contexts \ {answer'.session_id} :
                    s \in DOMAIN contexts' /\ contexts'[s] = contexts[s]
      ]_vars

\* C39 witness: a cleanup with the ttl of the settings removed one session
\* and left the other, updated with a turn within the ttl, in the store.
C39_Witness ==
    /\ answer.kind = "cleanup_expired"
    /\ answer.ttl_minutes = CONTEXT_TTL_MINUTES
    /\ answer.value = 1
    /\ \E s \in DOMAIN contexts :
            /\ contexts[s].turn_count > 0
            /\ now - contexts[s].last_updated <= 60 * answer.ttl_minutes

\* A cleanup found a session last updated exactly ttl minutes before and
\* left it in the store.
KeptAtCutoff ==
    /\ answer.kind = "cleanup_expired"
    /\ answer.value = 0
    /\ \E s \in DOMAIN contexts :
            now - contexts[s].last_updated = 60 * answer.ttl_minutes

====
